---- MODULE Spec2Model ----
(***************************************************************************)
(* WP Engine Domain Monitor (server.js and the static generator).          *)
(*                                                                         *)
(* The module models                                                       *)
(*   - the classifier determineDomainStatus with its helpers dnsLookup      *)
(*     and dnsPointsToWPE, as operators over JavaScript strings kept as    *)
(*     sequences of characters;                                            *)
(*   - the refresh pipeline refreshData with its process-wide variables    *)
(*     cachedData, isRefreshing and refreshProgress, one program counter   *)
(*     and one set of locals per caller;                                   *)
(*   - the Override Store confirmedDomains with its file confirmed.json,   *)
(*     the projection applyConfirmedOverrides, the routes GET /api/data    *)
(*     and POST/DELETE /api/confirm, and the restart of the process.       *)
(***************************************************************************)
EXTENDS Integers, Sequences, FiniteSets, TLC

(***************************************************************************)
(* JavaScript values.  A string is a sequence of one-character strings.    *)
(* undefined and null are one-element sequences whose element is no        *)
(* character, so they differ from every string.  An optional object is a   *)
(* sequence of length 0 (null) or 1.                                       *)
(***************************************************************************)
Undefined ==
    <<"undefined">>

Null ==
    <<"null">>

None ==
    <<>>

Some(x) ==
    <<x>>

\* JavaScript truthiness of a string-or-absent value.
Truthy(s) ==
    s # Undefined /\ s # Null /\ s # <<>>

\* a || b for string-or-absent values.
OrElse(a, b) ==
    IF Truthy(a) THEN a ELSE b

\* String.prototype.endsWith
EndsWith(s, suffix) ==
    /\ Len(s) >= Len(suffix)
    /\ SubSeq(s, Len(s) - Len(suffix) + 1, Len(s)) = suffix

\* String.prototype.startsWith
StartsWith(s, prefix) ==
    /\ Len(s) >= Len(prefix)
    /\ SubSeq(s, 1, Len(prefix)) = prefix

LowerCaseLetters ==
    <<"a","b","c","d","e","f","g","h","i","j","k","l","m",
      "n","o","p","q","r","s","t","u","v","w","x","y","z">>

UpperCaseLetters ==
    <<"A","B","C","D","E","F","G","H","I","J","K","L","M",
      "N","O","P","Q","R","S","T","U","V","W","X","Y","Z">>

UpperChar(c) ==
    IF \E k \in DOMAIN LowerCaseLetters : LowerCaseLetters[k] = c
    THEN UpperCaseLetters[CHOOSE k \in DOMAIN LowerCaseLetters : LowerCaseLetters[k] = c]
    ELSE c

\* A mutation of toUpperCase: the string is passed through unchanged.
toUpperCase_Unchanged(s) ==
    IF s = Undefined \/ s = Null THEN Undefined ELSE s

\* value?.toUpperCase(): undefined for undefined and null.
toUpperCase(s) ==
    IF s = Undefined \/ s = Null THEN Undefined
    ELSE [i \in DOMAIN s |-> UpperChar(s[i])]

\* The elements of a sequence.
Range(seq) ==
    {seq[i] : i \in DOMAIN seq}

(***************************************************************************)
(* String constants of the program.                                        *)
(***************************************************************************)
SUFFIX_WPENGINE ==
    <<".","w","p","e","n","g","i","n","e",".","c","o","m">>
SUFFIX_WPENGINEPOWERED ==
    <<".","w","p","e","n","g","i","n","e","p","o","w","e","r","e","d",".","c","o","m">>
SUFFIX_WPESVC ==
    <<".","w","p","e","s","v","c",".","n","e","t">>
SUFFIX_WPEPROXY ==
    <<".","w","p","e","p","r","o","x","y",".","c","o","m">>
PREFIX_141 ==
    <<"1","4","1",".","1","9","3",".","2","1","3",".">>
PREFIX_35 ==
    <<"3","5",".","2","0","3",".","4","3",".">>
PREFIX_172 ==
    <<"1","7","2",".","6","4",".","8","0",".">>
STR_ACTIVE ==
    <<"A","C","T","I","V","E">>
STR_PENDING ==
    <<"P","E","N","D","I","N","G">>
STR_DELETED ==
    <<"D","E","L","E","T","E","D">>
DETAIL_SYSTEM ==
    <<"S","y","s","t","e","m"," ","d","o","m","a","i","n">>
DETAIL_ACTIVE_POINTED ==
    <<"A","c","t","i","v","e"," ","&"," ","D","N","S"," ","p","o","i","n","t","e","d">>
DETAIL_NOT_POINTED ==
    <<"D","N","S"," ","n","o","t"," ","p","o","i","n","t","e","d"," ","t","o"," ","W","P","E">>
DETAIL_NOT_RESOLVING ==
    <<"D","N","S"," ","n","o","t"," ","r","e","s","o","l","v","i","n","g">>
DETAIL_ACTIVE_API ==
    <<"A","c","t","i","v","e"," ","(","A","P","I",")">>
DETAIL_PENDING ==
    <<"P","e","n","d","i","n","g"," ","s","e","t","u","p">>
DETAIL_DELETED ==
    <<"N","e","t","w","o","r","k"," ","d","e","l","e","t","e","d">>
DETAIL_LEGACY ==
    <<"D","N","S"," ","p","o","i","n","t","e","d"," ","(","L","e","g","a","c","y",")">>
DETAIL_NO_DATA ==
    <<"N","o"," ","s","t","a","t","u","s"," ","d","a","t","a">>
DETAIL_UNKNOWN ==
    <<"U","n","k","n","o","w","n">>
DETAIL_CONFIRMED ==
    <<"C","o","n","f","i","r","m","e","d"," ","O","K">>

WPE_CNAME_SUFFIXES ==
    <<SUFFIX_WPENGINE, SUFFIX_WPENGINEPOWERED, SUFFIX_WPESVC, SUFFIX_WPEPROXY>>

WPE_IP_PREFIXES ==
    <<PREFIX_141, PREFIX_35, PREFIX_172>>

(***************************************************************************)
(* DNS Verifier.                                                           *)
(***************************************************************************)
\* An outcome of dns.resolve4 or dns.resolveCname: rejected, or fulfilled
\* with a list of records.
Rejected ==
    [ok |-> FALSE, records |-> <<>>]

Fulfilled(records) ==
    [ok |-> TRUE, records |-> records]

\* A mutation of dnsLookup: the failure of one resolver call empties both
\* lists.
dnsLookup_FailureEmptiesBoth(resolve4, resolveCname) ==
    IF resolve4.ok /\ resolveCname.ok
    THEN [ips |-> resolve4.records, cnames |-> resolveCname.records, resolved |-> TRUE]
    ELSE [ips |-> <<>>, cnames |-> <<>>, resolved |-> FALSE]
\* dnsLookup(domain), given the outcomes of its two resolver calls.
dnsLookup(resolve4, resolveCname) ==
    LET ips == IF resolve4.ok THEN resolve4.records ELSE <<>>
        resolved1 == resolve4.ok
        cnames == IF resolveCname.ok THEN resolveCname.records ELSE <<>>
        resolved2 == IF resolveCname.ok THEN resolved1 \/ Len(cnames) > 0 ELSE resolved1
    IN  [ips |-> ips, cnames |-> cnames, resolved |-> resolved2]

\* A mutation of dnsPointsToWPE: the A-records are consulted only when the name
\* has no CNAME.
dnsPointsToWPE_CnamesDecide(dnsResult, installCname, allDomainNames) ==
    IF dnsResult = None \/ ~dnsResult[1].resolved THEN FALSE
    ELSE LET r == dnsResult[1] IN
         IF Len(r.cnames) > 0
         THEN \/ \E c \in Range(r.cnames) :
                    \/ \E s \in Range(WPE_CNAME_SUFFIXES) : EndsWith(c, s)
                    \/ c = installCname
              \/ \E c \in Range(r.cnames) : c \in allDomainNames
         ELSE /\ Len(r.ips) > 0
              /\ \E ip \in Range(r.ips) : \E p \in Range(WPE_IP_PREFIXES) : StartsWith(ip, p)
\* dnsResult is None (null) or Some(result); allDomainNames is a set of names.
dnsPointsToWPE(dnsResult, installCname, allDomainNames) ==
    IF dnsResult = None \/ ~dnsResult[1].resolved THEN FALSE
    ELSE LET r == dnsResult[1] IN
         \/ /\ Len(r.cnames) > 0
            /\ \/ \E c \in Range(r.cnames) :
                     \/ \E s \in Range(WPE_CNAME_SUFFIXES) : EndsWith(c, s)
                     \/ c = installCname
               \/ \E c \in Range(r.cnames) : c \in allDomainNames
         \/ /\ Len(r.ips) > 0
            /\ \E ip \in Range(r.ips) : \E p \in Range(WPE_IP_PREFIXES) : StartsWith(ip, p)

(***************************************************************************)
(* Status Classifier.  A domain record carries the fields the classifier   *)
(* reads: name, id, status (network_details?.network_info?.status), cname  *)
(* and a_records (network_details?.dns_config_info?.cname / .a_records);   *)
(* a_records is None when the provider sent no list, else Some(list).      *)
(***************************************************************************)
\* A mutation of isSystemName: only one of the two suffixes is tested.
isSystemName_OneSuffix(name) ==
    EndsWith(name, SUFFIX_WPENGINE)

isSystemName(name) ==
    EndsWith(name, SUFFIX_WPENGINEPOWERED) \/ EndsWith(name, SUFFIX_WPENGINE)

Verdict(status, detail) ==
    [status |-> status, detail |-> detail]

\* domain.network_details?.dns_config_info?.cname || null
expectedCnameOf(domain) ==
    OrElse(domain.cname, Null)

\* domain.network_details?.dns_config_info?.a_records || []
expectedARecordsOf(domain) ==
    IF domain.a_records = None THEN <<>> ELSE domain.a_records[1]

\* A mutation of dnsMatchesExpected: the lists are not compared.
dnsMatchesExpected_NoCompare(domain, dnsResult) ==
    /\ dnsResult # None
    /\ Len(dnsResult[1].ips) > 0
    /\ Len(expectedARecordsOf(domain)) > 0

dnsMatchesExpected(domain, dnsResult) ==
    IF dnsResult # None /\ Len(dnsResult[1].ips) > 0 /\ Len(expectedARecordsOf(domain)) > 0
    THEN \E ip \in Range(dnsResult[1].ips) : ip \in Range(expectedARecordsOf(domain))
    ELSE FALSE

\* A mutation of cnameMatchesExpected: the expected CNAME is never consulted.
cnameMatchesExpected_Never(domain, dnsResult) ==
    FALSE

cnameMatchesExpected(domain, dnsResult) ==
    IF dnsResult # None /\ Len(dnsResult[1].cnames) > 0 /\ Truthy(expectedCnameOf(domain))
    THEN \E c \in Range(dnsResult[1].cnames) : c = expectedCnameOf(domain)
    ELSE FALSE

\* A mutation of legacyStatus: the resolved flag of the DNS result is not
\* consulted.
legacyStatus_ResolvedUnchecked(dnsResult, dnsMatches) ==
    IF dnsMatches THEN Verdict("good", DETAIL_LEGACY)
    ELSE IF dnsResult # None
        THEN Verdict("issue", DETAIL_NOT_POINTED)
    ELSE Verdict("unknown", DETAIL_NO_DATA)
\* The branch of determineDomainStatus for a domain without network status.
legacyStatus(dnsResult, dnsMatches) ==
    IF dnsMatches THEN Verdict("good", DETAIL_LEGACY)
    ELSE IF dnsResult # None /\ dnsResult[1].resolved
        THEN Verdict("issue", DETAIL_NOT_POINTED)
    ELSE IF dnsResult # None /\ ~dnsResult[1].resolved
        THEN Verdict("issue", DETAIL_NOT_RESOLVING)
    ELSE Verdict("unknown", DETAIL_NO_DATA)

\* The branch of determineDomainStatus for an ACTIVE domain.
activeStatus(domain, dnsResult, dnsMatches) ==
    IF dnsMatches \/ dnsMatchesExpected(domain, dnsResult)
                  \/ cnameMatchesExpected(domain, dnsResult)
        THEN Verdict("good", DETAIL_ACTIVE_POINTED)
    ELSE IF dnsResult # None /\ dnsResult[1].resolved
        THEN Verdict("issue", DETAIL_NOT_POINTED)
    ELSE IF dnsResult # None /\ ~dnsResult[1].resolved
        THEN Verdict("issue", DETAIL_NOT_RESOLVING)
    ELSE Verdict("good", DETAIL_ACTIVE_API)

\* A mutation of determineDomainStatus: a DELETED domain whose DNS still points
\* at the provider is reported good.
determineDomainStatus_DeletedByDns(domain, dnsResult, installCname, allDomainNames) ==
    IF isSystemName(domain.name) THEN Verdict("system", DETAIL_SYSTEM)
    ELSE
    LET networkStatus == toUpperCase(domain.status)
        dnsMatches == IF dnsResult # None
                      THEN dnsPointsToWPE(dnsResult, installCname, allDomainNames)
                      ELSE FALSE
    IN  IF networkStatus = STR_ACTIVE THEN activeStatus(domain, dnsResult, dnsMatches)
        ELSE IF networkStatus = STR_PENDING THEN Verdict("pending", DETAIL_PENDING)
        ELSE IF networkStatus = STR_DELETED /\ ~dnsMatches
            THEN Verdict("issue", DETAIL_DELETED)
        ELSE IF ~Truthy(networkStatus) \/ networkStatus = STR_DELETED
            THEN legacyStatus(dnsResult, dnsMatches)
        ELSE Verdict("unknown", OrElse(networkStatus, DETAIL_UNKNOWN))
\* A mutation of determineDomainStatus: the DNS evidence is consulted before
\* the PENDING and DELETED states.
determineDomainStatus_DnsFirst(domain, dnsResult, installCname, allDomainNames) ==
    IF isSystemName(domain.name) THEN Verdict("system", DETAIL_SYSTEM)
    ELSE
    LET networkStatus == toUpperCase(domain.status)
        dnsMatches == IF dnsResult # None
                      THEN dnsPointsToWPE(dnsResult, installCname, allDomainNames)
                      ELSE FALSE
    IN  IF networkStatus = STR_ACTIVE THEN activeStatus(domain, dnsResult, dnsMatches)
        ELSE IF dnsMatches THEN Verdict("good", DETAIL_LEGACY)
        ELSE IF networkStatus = STR_PENDING THEN Verdict("pending", DETAIL_PENDING)
        ELSE IF networkStatus = STR_DELETED THEN Verdict("issue", DETAIL_DELETED)
        ELSE IF ~Truthy(networkStatus) THEN legacyStatus(dnsResult, dnsMatches)
        ELSE Verdict("unknown", OrElse(networkStatus, DETAIL_UNKNOWN))

determineDomainStatus(domain, dnsResult, installCname, allDomainNames) ==
    IF isSystemName(domain.name) THEN Verdict("system", DETAIL_SYSTEM)
    ELSE
    LET networkStatus == toUpperCase(domain.status)
        dnsMatches == IF dnsResult # None
                      THEN dnsPointsToWPE(dnsResult, installCname, allDomainNames)
                      ELSE FALSE
    IN  IF networkStatus = STR_ACTIVE THEN activeStatus(domain, dnsResult, dnsMatches)
        ELSE IF networkStatus = STR_PENDING THEN Verdict("pending", DETAIL_PENDING)
        ELSE IF networkStatus = STR_DELETED THEN Verdict("issue", DETAIL_DELETED)
        ELSE IF ~Truthy(networkStatus) THEN legacyStatus(dnsResult, dnsMatches)
        ELSE Verdict("unknown", OrElse(networkStatus, DETAIL_UNKNOWN))

(***************************************************************************)
(* Bounds of the model and constants of the program.                       *)
(***************************************************************************)
\* Number of callers of refreshData (the start-up call and /api/refresh
\* requests); each calls once.
NumCallers == 3

INSTALL_CONCURRENCY == 10

DNS_CONCURRENCY == 30

PROGRESS_EVERY == 50

Callers ==
    1..NumCallers

(***************************************************************************)
(* What the collaborators may answer.  The hosting API and the resolver    *)
(* are outside the program: every call draws its answer from these sets.   *)
(***************************************************************************)
NAME_A ==
    <<"a",".","i","o">>

NAME_B ==
    <<"b",".","i","o">>

NAME_SYS ==
    <<"s">> \o SUFFIX_WPENGINE

CNAME_1 ==
    <<"i","1">> \o SUFFIX_WPENGINE

CNAME_2 ==
    <<"i","2">> \o SUFFIX_WPENGINE

IP_WPE ==
    PREFIX_141 \o <<"1","0">>

IP_OTHER ==
    <<"8",".","8",".","8",".","8">>

IP_EXPECTED ==
    <<"2","0","3",".","0",".","1","1","3",".","5">>

Domain(name, id, status, cname, a_records) ==
    [name |-> name, id |-> id, status |-> status, cname |-> cname, a_records |-> a_records]

Install(id, cname) ==
    [id |-> id, cname |-> cname]

\* Answers of GET /installs (all pages together).
InstallListings ==
    { <<Install(1, CNAME_1)>>,
      <<Install(1, CNAME_1), Install(2, CNAME_2)>> }

\* Answers of GET /installs of a second account, in which one domain name is
\* attached to two installs and is deleted and created again between refreshes.
SharedNameInstallListings ==
    { <<Install(3, CNAME_1)>>,
      <<Install(3, CNAME_1), Install(4, CNAME_2)>> }

\* Answers of GET /installs/:id/domains.
DomainListings(installId) ==
    IF installId = 1
    THEN { <<Domain(NAME_A, 11, STR_ACTIVE, Undefined, None),
             Domain(NAME_SYS, 12, STR_ACTIVE, Undefined, None)>> }
    ELSE IF installId = 2
    THEN { <<>>,
           <<Domain(NAME_B, 21, Undefined, Undefined, None)>> }
    ELSE IF installId = 3
    THEN { <<Domain(NAME_A, 31, STR_ACTIVE, Undefined, None)>>,
           <<Domain(NAME_A, 32, STR_ACTIVE, Undefined, None)>> }
    ELSE { <<Domain(NAME_A, 41, Undefined, Undefined, None)>> }

\* Outcomes of dns.resolve4 and dns.resolveCname during a refresh.
Resolve4Outcomes ==
    { Rejected, Fulfilled(<<IP_WPE>>) }

ResolveCnameOutcomes ==
    { Rejected }

\* A third account, larger than one batch of either stage of the refresh:
\* eleven installs and thirty-two custom domains, b.io .. 5.io after a.io.
BatchLetters ==
    <<"a","b","c","d","e","f","g","h","i","j","k","l","m","n","o","p",
      "q","r","s","t","u","v","w","x","y","z","0","1","2","3","4","5">>

BatchName(n) ==
    <<BatchLetters[n]>> \o <<".","i","o">>

BatchNumber(name) ==
    CHOOSE n \in DOMAIN BatchLetters : BatchName(n) = name

BatchDomain(n) ==
    Domain(BatchName(n), 1000 + n, IF n % 2 = 0 THEN STR_ACTIVE ELSE Undefined,
           Undefined, None)

BatchInstall(j) ==
    Install(100 + j, IF j % 2 = 1 THEN CNAME_1 ELSE CNAME_2)

\* Answers of GET /installs of the third account: ten installs, which fill one
\* batch, or eleven.
BatchInstallListings ==
    { [j \in 1..10 |-> BatchInstall(j)],
      [j \in 1..11 |-> BatchInstall(j)] }

\* The outcome of GET /installs/:id/domains in the third account: the first
\* install holds twenty-three custom domains and a system domain, the second
\* none, the call for the third fails, the next seven hold one custom domain
\* each and the eleventh two.
BatchFetchOutcome(installId) ==
    IF installId = 101
    THEN Fulfilled([n \in 1..23 |-> BatchDomain(n)]
                      \o <<Domain(NAME_SYS, 1999, STR_ACTIVE, Undefined, None)>>)
    ELSE IF installId = 102 THEN Fulfilled(<<>>)
    ELSE IF installId = 103 THEN Rejected
    ELSE IF installId = 111 THEN Fulfilled(<<BatchDomain(31), BatchDomain(32)>>)
    ELSE Fulfilled(<<BatchDomain(installId - 80)>>)

\* What the resolver answers for a name of the third account during the
\* first refresh: every fourth name has an A-record at the provider, the next
\* has no record at all, the next an A-record elsewhere, and the next an
\* A-record elsewhere and a CNAME to the first domain of the eleventh install.
\* Before the second refresh the records have changed: every name has the
\* kind of record its successor had, at an address of its own.
BatchResolve4(name, cycle) ==
    LET n == BatchNumber(name)
        m == n + cycle - 1
        own == <<BatchLetters[n]>> \o (IF cycle = 1 THEN <<>> ELSE <<"2">>)
    IN  IF m % 4 = 0 THEN Fulfilled(<<PREFIX_141 \o own>>)
        ELSE IF m % 4 = 1 THEN Rejected
        ELSE IF m % 4 = 2 THEN Fulfilled(<<<<"8", ".">> \o own>>)
        ELSE Fulfilled(<<<<"9", ".">> \o own>>)

BatchResolveCname(name, cycle) ==
    IF (BatchNumber(name) + cycle - 1) % 4 = 3
    THEN Fulfilled(<<BatchName(31)>>) ELSE Rejected

(***************************************************************************)
(* State.                                                                  *)
(***************************************************************************)
VARIABLES
    cachedData,        \* None, or Some(snapshot): the live snapshot
    isRefreshing,      \* the in-progress flag
    refreshProgress,   \* the progress message
    pc,                \* per caller: where its refreshData call stands
    loc,               \* per caller: the locals of its refreshData call
    result,            \* per caller: what refreshData gave back
    runs,              \* history: one entry per pipeline execution started
    myRun,             \* history: the pipeline execution a caller started (0: none)
    inFlightAtCall,    \* history: the executions in flight when the caller called
    cl,                \* a call of determineDomainStatus: its arguments and result
    confirmedDomains,  \* the override store: domain name -> [confirmedAt]
    confirmedFile,     \* confirmed.json: None (no file), or Some(its text)
    response,          \* None, or Some(response) while a route handler answers
    loadFailed         \* history: the last loadConfirmed caught an exception

pipelineVars ==
    <<cachedData, isRefreshing, refreshProgress, pc, loc, result, runs, myRun,
      inFlightAtCall>>

storeVars ==
    <<confirmedDomains, confirmedFile, response, loadFailed>>

vars ==
    <<cachedData, isRefreshing, refreshProgress, pc, loc, result, runs, myRun,
      inFlightAtCall, cl, confirmedDomains, confirmedFile, response, loadFailed>>

Progress(msg, a, b) ==
    [msg |-> msg, a |-> a, b |-> b]

NoProgress ==
    Progress("", 0, 0)

NoLocals ==
    [installs |-> <<>>, results |-> <<>>, i |-> 0, slots |-> <<>>,
     installDomains |-> <<>>, allDomainNames |-> {}, allCustomDomains |-> <<>>,
     dnsResults |-> <<>>, done |-> 0]

\* A reference to a snapshot object: the identity of the object, 0 for null.
Ref(data) ==
    IF data = None THEN 0 ELSE data[1].run

NoResult ==
    [kind |-> "none", ref |-> 0]

\* refreshData returned the object data (cachedData, by reference).
Returned(data) ==
    [kind |-> "data", ref |-> Ref(data)]

\* refreshData threw.
Threw ==
    [kind |-> "error", ref |-> 0]

Executing(r) ==
    pc[r] \in {"fetchAllInstalls", "fetchDomains", "dnsLookup"}

(***************************************************************************)
(* Helpers of the pipeline.                                                *)
(***************************************************************************)
Min(a, b) ==
    IF a <= b THEN a ELSE b

RECURSIVE Flatten(_)
\* Array.prototype.flatMap over a sequence of sequences.
Flatten(seqs) ==
    IF seqs = <<>> THEN <<>> ELSE Head(seqs) \o Flatten(Tail(seqs))

\* A mutation of LaunchBatch: all the remaining items are started at once.
LaunchBatch_AllAtOnce(items, i, concurrency) ==
    [k \in 1..(Len(items) - i) |-> None]
\* batchAsync: the slots of the batch that starts at offset i, all outstanding.
LaunchBatch(items, i, concurrency) ==
    [k \in 1..(Min(i + concurrency, Len(items)) - i) |-> None]

AllSettled(slots) ==
    \A k \in DOMAIN slots : slots[k] # None

SlotValues(slots) ==
    [k \in DOMAIN slots |-> slots[k][1]]

\* fetchDomains(installId), given the outcome of its API call.
fetchDomains(outcome) ==
    IF outcome.ok THEN outcome.records ELSE <<>>

\* A mutation of Assign: the results are stored in the order of their arrival,
\* the n-th under the id of the n-th domain of the account.
Assign_ByArrival(obj, key, value) ==
    LET slot == 1001 + Cardinality(DOMAIN obj)
    IN  [k \in DOMAIN obj \cup {slot} |-> IF k = slot THEN value ELSE obj[k]]
\* dnsResults[id] = value
Assign(obj, key, value) ==
    [k \in DOMAIN obj \cup {key} |-> IF k = key THEN value ELSE obj[k]]

\* A mutation of Lookup: the result of a lookup that did not resolve is not
\* handed to the classifier.
Lookup_UnresolvedIsNull(obj, key) ==
    IF key \in DOMAIN obj /\ obj[key].resolved THEN Some(obj[key]) ELSE None
\* A mutation of Lookup: the result is read under the id that follows.
Lookup_NextId(obj, key) ==
    IF key + 1 \in DOMAIN obj THEN Some(obj[key + 1])
    ELSE IF key \in DOMAIN obj THEN Some(obj[key]) ELSE None
\* dnsResults[id] || null
Lookup(obj, key) ==
    IF key \in DOMAIN obj THEN Some(obj[key]) ELSE None

\* A mutation of BuildAllDomainNames: the index holds the custom domains only.
BuildAllDomainNames_CustomOnly(installDomains) ==
    {d.name : d \in {x \in UNION {Range(e.domains) : e \in Range(installDomains)} :
                         ~isSystemName(x.name)}}
\* The set allDomainNames built from installDomains.
BuildAllDomainNames(installDomains) ==
    {d.name : d \in UNION {Range(e.domains) : e \in Range(installDomains)}}

IsCustom(d) ==
    ~EndsWith(d.name, SUFFIX_WPENGINEPOWERED) /\ ~EndsWith(d.name, SUFFIX_WPENGINE)

RECURSIVE CustomDomainsOf(_)
\* The custom domains of one install's list, in order.
CustomDomainsOf(domains) ==
    IF domains = <<>> THEN <<>>
    ELSE IF IsCustom(Head(domains))
         THEN <<Head(domains)>> \o CustomDomainsOf(Tail(domains))
         ELSE CustomDomainsOf(Tail(domains))

\* The list allCustomDomains built from installDomains.
BuildAllCustomDomains(installDomains) ==
    Flatten([e \in DOMAIN installDomains |-> CustomDomainsOf(installDomains[e].domains)])

\* One element of enrichedDomains.
EnrichDomain(d, install, dnsResults, allDomainNames) ==
    LET dnsResult == Lookup(dnsResults, d.id)
        v == determineDomainStatus(d, dnsResult, install.cname, allDomainNames)
    IN  [name |-> d.name, id |-> d.id, isSystem |-> isSystemName(d.name),
         dns |-> dnsResult, status |-> v.status, detail |-> v.detail,
         expectedCname |-> expectedCnameOf(d),
         expectedARecords |-> expectedARecordsOf(d)]

\* custom.filter((d) => d.status === status).length
CountCustomWith(domains, status) ==
    Cardinality({i \in DOMAIN domains : ~domains[i].isSystem /\ domains[i].status = status})

\* domains.filter((d) => !d.isSystem).length
CountCustom(domains) ==
    Cardinality({i \in DOMAIN domains : ~domains[i].isSystem})

\* One element of siteData.
BuildSite(entry, dnsResults, allDomainNames) ==
    LET enrichedDomains ==
            [k \in DOMAIN entry.domains |->
                EnrichDomain(entry.domains[k], entry.install, dnsResults, allDomainNames)]
    IN  [id |-> entry.install.id, cname |-> entry.install.cname,
         domains |-> enrichedDomains,
         issueCount |-> CountCustomWith(enrichedDomains, "issue"),
         pendingCount |-> CountCustomWith(enrichedDomains, "pending")]

\* A mutation of BuildSiteData: an install without domains gets no site.
BuildSiteData_SkipsEmpty(installDomains, dnsResults, allDomainNames) ==
    LET HasDomains(entry) == entry.domains # <<>>
        kept == SelectSeq(installDomains, HasDomains)
    IN  [k \in DOMAIN kept |-> BuildSite(kept[k], dnsResults, allDomainNames)]
BuildSiteData(installDomains, dnsResults, allDomainNames) ==
    [k \in DOMAIN installDomains |-> BuildSite(installDomains[k], dnsResults, allDomainNames)]

BuildStats(installs, siteData) ==
    LET allDomains == Flatten([k \in DOMAIN siteData |-> siteData[k].domains])
    IN  [totalSites |-> Len(installs), totalDomains |-> Len(allDomains),
         customDomains |-> CountCustom(allDomains),
         good |-> CountCustomWith(allDomains, "good"),
         issues |-> CountCustomWith(allDomains, "issue"),
         pending |-> CountCustomWith(allDomains, "pending")]

\* The object assigned to cachedData.  The field run stands for the identity of
\* the object: the pipeline execution that allocated it.
BuildSnapshot(l, run) ==
    CHOOSE snapshot \in
        {[sites |-> siteData, stats |-> BuildStats(l.installs, siteData), run |-> run] :
            siteData \in {BuildSiteData(l.installDomains, l.dnsResults, l.allDomainNames)}} : TRUE

(***************************************************************************)
(* Override Store.  confirmedDomains is a JavaScript object used as a map  *)
(* from domain name to {confirmedAt}; confirmed.json holds its JSON text,  *)
(* kept as the sequence of its members.  A timestamp is kept as the number *)
(* of the instant at which Date was read.                                  *)
(***************************************************************************)
\* The number of instants at which a confirm request can read the clock.
NumTimes == 2

Times ==
    1..NumTimes

\* {}
EmptyObject ==
    <<>>

\* delete obj[key]
Delete(obj, key) ==
    [k \in DOMAIN obj \ {key} |-> obj[k]]

\* { ...obj, ...extra }
Spread(obj, extra) ==
    [f \in DOMAIN obj \cup DOMAIN extra |-> IF f \in DOMAIN extra THEN extra[f] ELSE obj[f]]

RECURSIVE JSONstringify(_)
\* JSON.stringify of a map: its members, one after the other.
JSONstringify(obj) ==
    IF DOMAIN obj = {} THEN <<>>
    ELSE LET key == CHOOSE k \in DOMAIN obj : TRUE
         IN  <<[key |-> key, value |-> obj[key]]>> \o JSONstringify(Delete(obj, key))

RECURSIVE JSONparse(_)
\* JSON.parse of such a text: a later member replaces an earlier one of the
\* same key.
JSONparse(text) ==
    IF text = <<>> THEN EmptyObject
    ELSE LET last == text[Len(text)]
         IN  Assign(JSONparse(SubSeq(text, 1, Len(text) - 1)), last.key, last.value)

\* The content of a file that a failed write left truncated: no JSON text.
Garbled ==
    <<[garbled |-> TRUE]>>

\* JSON.parse of the file's content throws.
ParseFails(file) ==
    file # None /\ file[1] = Garbled

\* loadConfirmed(), given the file, which can be read: {} when the file does
\* not exist and when JSON.parse throws.
loadConfirmed(file) ==
    IF file # None /\ ~ParseFails(file) THEN JSONparse(file[1]) ELSE EmptyObject

\* saveConfirmed(data): the file after the write.
saveConfirmed(data) ==
    Some(JSONstringify(data))

\* A mutation of overrideDomain: the classifier's verdict is not tested.
overrideDomain_AnyStatus(d, confirmed) ==
    IF d.name \in DOMAIN confirmed
    THEN Spread(d, [status |-> "confirmed", originalStatus |-> "issue",
                    originalDetail |-> d.detail, detail |-> DETAIL_CONFIRMED,
                    confirmedAt |-> confirmed[d.name].confirmedAt])
    ELSE d
\* A mutation of overrideDomain: the reason is replaced before it is kept.
overrideDomain_DetailOverwritten(d, confirmed) ==
    IF d.status = "issue" /\ d.name \in DOMAIN confirmed
    THEN Spread(d, [status |-> "confirmed", originalStatus |-> "issue",
                    originalDetail |-> DETAIL_CONFIRMED, detail |-> DETAIL_CONFIRMED,
                    confirmedAt |-> confirmed[d.name].confirmedAt])
    ELSE d
\* A mutation of overrideDomain: the override is looked up under the id the
\* name carried when it was first listed.
overrideDomain_ByFirstId(d, confirmed) ==
    IF d.status = "issue" /\ d.name \in DOMAIN confirmed /\ d.id \in {11, 21, 31}
    THEN Spread(d, [status |-> "confirmed", originalStatus |-> "issue",
                    originalDetail |-> d.detail, detail |-> DETAIL_CONFIRMED,
                    confirmedAt |-> confirmed[d.name].confirmedAt])
    ELSE d
\* The callback of site.domains.map in applyConfirmedOverrides; confirmed is the
\* override store it reads.
overrideDomain(d, confirmed) ==
    IF d.status = "issue" /\ d.name \in DOMAIN confirmed
    THEN Spread(d, [status |-> "confirmed", originalStatus |-> "issue",
                    originalDetail |-> d.detail, detail |-> DETAIL_CONFIRMED,
                    confirmedAt |-> confirmed[d.name].confirmedAt])
    ELSE d

\* A mutation of overrideSite: the site's issue count is not recomputed.
overrideSite_StaleCounts(site, confirmed) ==
    LET domains == [k \in DOMAIN site.domains |-> overrideDomain(site.domains[k], confirmed)]
    IN  Spread(site, [domains |-> domains,
                      confirmedCount |-> CountCustomWith(domains, "confirmed")])
\* The callback of data.sites.map in applyConfirmedOverrides.
overrideSite(site, confirmed) ==
    LET domains == [k \in DOMAIN site.domains |-> overrideDomain(site.domains[k], confirmed)]
    IN  Spread(site, [domains |-> domains,
                      issueCount |-> CountCustomWith(domains, "issue"),
                      confirmedCount |-> CountCustomWith(domains, "confirmed")])

\* applyConfirmedOverrides(data), reading the override store confirmed; data is
\* None (null) or Some(snapshot).
applyConfirmedOverrides(data, confirmed) ==
    IF data = None THEN data
    ELSE LET sites == [k \in DOMAIN data[1].sites |-> overrideSite(data[1].sites[k], confirmed)]
             allDomains == Flatten([k \in DOMAIN sites |-> sites[k].domains])
         IN  Some([sites |-> sites,
                   stats |-> Spread(data[1].stats,
                                    [good |-> CountCustomWith(allDomains, "good"),
                                     issues |-> CountCustomWith(allDomains, "issue"),
                                     confirmed |-> CountCustomWith(allDomains, "confirmed"),
                                     pending |-> CountCustomWith(allDomains, "pending")])])

\* The body { sites: [], stats: null } of GET /api/data before any snapshot.
EmptyData ==
    [sites |-> <<>>, stats |-> Null]

\* What a route handler sends: the route, the HTTP status, the domain the
\* request named and the body's data (None when the body carries none).
Response(route, code, domain, data) ==
    [route |-> route, code |-> code, domain |-> domain, data |-> data]

InitStore ==
    /\ confirmedFile = None
    /\ confirmedDomains = loadConfirmed(confirmedFile)
    /\ loadFailed = ParseFails(confirmedFile)
    /\ response = None

(***************************************************************************)
(* The classifier call checked on its own.                                 *)
(***************************************************************************)
ClCall(domain, dnsResult, installCname, allDomainNames, out) ==
    [domain |-> domain, dnsResult |-> dnsResult, installCname |-> installCname,
     allDomainNames |-> allDomainNames, out |-> out, dnsMatches |-> None]

ClIdle ==
    ClCall(Domain(<<>>, 0, Undefined, Undefined, None), None, Undefined, {}, None)

(***************************************************************************)
(* Initial state: nothing cached, no refresh running, no caller yet.       *)
(***************************************************************************)
InitPipeline ==
    /\ cachedData = None
    /\ isRefreshing = FALSE
    /\ refreshProgress = NoProgress
    /\ pc = [r \in Callers |-> "idle"]
    /\ loc = [r \in Callers |-> NoLocals]
    /\ result = [r \in Callers |-> NoResult]
    /\ runs = <<>>
    /\ myRun = [r \in Callers |-> 0]
    /\ inFlightAtCall = [r \in Callers |-> {}]

Init ==
    /\ InitPipeline
    /\ InitStore
    /\ cl = ClIdle

(***************************************************************************)
(* refreshData.                                                            *)
(***************************************************************************)
\* A mutation of MustWait: the flag is not consulted.
MustWait_Never ==
    FALSE

\* The test at the top of refreshData.
MustWait ==
    isRefreshing

RunsInFlight ==
    {myRun[q] : q \in {c \in Callers : Executing(c)}}

NoteCall(r) ==
    inFlightAtCall' = [inFlightAtCall EXCEPT ![r] = RunsInFlight]

\* A caller calls refreshData while no refresh is running: the pipeline starts
\* and the install listing is requested.
StartRefresh(r) ==
    /\ pc[r] = "idle"
    /\ ~MustWait
    /\ NoteCall(r)
    /\ isRefreshing' = TRUE
    /\ refreshProgress' = Progress("Fetching installs...", 0, 0)
    /\ pc' = [pc EXCEPT ![r] = "fetchAllInstalls"]
    /\ runs' = Append(runs, [owner |-> r, state |-> "running"])
    /\ myRun' = [myRun EXCEPT ![r] = Len(runs) + 1]
    /\ UNCHANGED <<cachedData, loc, result, cl, storeVars>>

\* A caller calls refreshData while a refresh is running: it starts polling.
WaitForRefresh(r) ==
    /\ pc[r] = "idle"
    /\ MustWait
    /\ NoteCall(r)
    /\ pc' = [pc EXCEPT ![r] = "waiting"]
    /\ UNCHANGED <<cachedData, isRefreshing, refreshProgress, loc, result, runs, myRun, cl, storeVars>>

\* A mutation of PollRefresh: the waiting caller is answered null.
PollRefresh_ReturnsNull(r) ==
    /\ pc[r] = "waiting"
    /\ ~isRefreshing
    /\ pc' = [pc EXCEPT ![r] = "returned"]
    /\ result' = [result EXCEPT ![r] = Returned(None)]
    /\ UNCHANGED <<cachedData, isRefreshing, refreshProgress, loc, runs, myRun,
                   inFlightAtCall, cl, storeVars>>

\* The interval timer of a waiting caller fires and finds the flag cleared.
PollRefresh(r) ==
    /\ pc[r] = "waiting"
    /\ ~isRefreshing
    /\ pc' = [pc EXCEPT ![r] = "returned"]
    /\ result' = [result EXCEPT ![r] = Returned(cachedData)]
    /\ UNCHANGED <<cachedData, isRefreshing, refreshProgress, loc, runs, myRun,
                   inFlightAtCall, cl, storeVars>>

\* A mutation of Continue: every stage publishes what it has so far.
Continue_Publishes(r, newPc, newLoc, progress) ==
    /\ pc' = [pc EXCEPT ![r] = newPc]
    /\ loc' = [loc EXCEPT ![r] = newLoc]
    /\ refreshProgress' = progress
    /\ cachedData' = Some(BuildSnapshot(newLoc, myRun[r]))
    /\ UNCHANGED <<isRefreshing, result, runs, myRun, inFlightAtCall, cl, storeVars>>

\* The pipeline moves on without completing.
Continue(r, newPc, newLoc, progress) ==
    /\ pc' = [pc EXCEPT ![r] = newPc]
    /\ loc' = [loc EXCEPT ![r] = newLoc]
    /\ refreshProgress' = progress
    /\ UNCHANGED <<cachedData, isRefreshing, result, runs, myRun, inFlightAtCall, cl, storeVars>>

\* A mutation of Complete: the flag is cleared where the pipeline fails only,
\* so a refresh that completes leaves it raised.
Complete_KeepsFlag(r, l) ==
    \E snapshot \in {BuildSnapshot(l, myRun[r])} :
    /\ cachedData' = Some(snapshot)
    /\ refreshProgress' = NoProgress
    /\ isRefreshing' = TRUE
    /\ pc' = [pc EXCEPT ![r] = "returned"]
    /\ loc' = [loc EXCEPT ![r] = NoLocals]
    /\ result' = [result EXCEPT ![r] = Returned(Some(snapshot))]
    /\ runs' = [runs EXCEPT ![myRun[r]].state = "done"]
    /\ UNCHANGED <<myRun, inFlightAtCall, cl, storeVars>>

\* A mutation of Complete: a completed refresh starts from an empty override
\* store.
Complete_ClearsOverrides(r, l) ==
    LET snapshot == BuildSnapshot(l, myRun[r]) IN
    /\ cachedData' = Some(snapshot)
    /\ refreshProgress' = NoProgress
    /\ isRefreshing' = FALSE
    /\ pc' = [pc EXCEPT ![r] = "returned"]
    /\ loc' = [loc EXCEPT ![r] = NoLocals]
    /\ result' = [result EXCEPT ![r] = Returned(Some(snapshot))]
    /\ runs' = [runs EXCEPT ![myRun[r]].state = "done"]
    /\ confirmedDomains' = EmptyObject
    /\ UNCHANGED <<myRun, inFlightAtCall, cl, confirmedFile, response, loadFailed>>
\* The tail of refreshData: build the snapshot, replace cachedData, return it,
\* and clear the flag in the finally block.
Complete(r, l) ==
    \E snapshot \in {BuildSnapshot(l, myRun[r])} :
    /\ cachedData' = Some(snapshot)
    /\ refreshProgress' = NoProgress
    /\ isRefreshing' = FALSE
    /\ pc' = [pc EXCEPT ![r] = "returned"]
    /\ loc' = [loc EXCEPT ![r] = NoLocals]
    /\ result' = [result EXCEPT ![r] = Returned(Some(snapshot))]
    /\ runs' = [runs EXCEPT ![myRun[r]].state = "done"]
    /\ UNCHANGED <<myRun, inFlightAtCall, cl, storeVars>>

\* After the domain stage: build the index and the custom-domain list, then
\* start the DNS stage, or finish at once when there is nothing to look up.
AfterDomains(r, l) ==
    LET l2 == [l EXCEPT !.allDomainNames = BuildAllDomainNames(l.installDomains),
                        !.allCustomDomains = BuildAllCustomDomains(l.installDomains),
                        !.dnsResults = <<>>,
                        !.done = 0,
                        !.results = <<>>,
                        !.i = 0]
        n == Len(l2.allCustomDomains)
    IN  IF n = 0
        THEN Complete(r, l2)
        ELSE Continue(r, "dnsLookup",
                      [l2 EXCEPT !.slots = LaunchBatch(l2.allCustomDomains, 0, DNS_CONCURRENCY)],
                      Progress("DNS checks on", n, 0))

\* After the install listing: start the domain stage.
AfterInstalls(r, installs) ==
    LET l == [NoLocals EXCEPT !.installs = installs] IN
    IF Len(installs) = 0
    THEN AfterDomains(r, l)
    ELSE Continue(r, "fetchDomains",
                  [l EXCEPT !.slots = LaunchBatch(installs, 0, INSTALL_CONCURRENCY)],
                  Progress("Fetching domains for", Len(installs), 0))

\* fetchAllInstalls resolves.
InstallsFulfilled(r) ==
    /\ pc[r] = "fetchAllInstalls"
    /\ \E installs \in InstallListings : AfterInstalls(r, installs)

\* fetchAllInstalls resolves with the installs of the second account.
InstallsFulfilledSharedName(r) ==
    /\ pc[r] = "fetchAllInstalls"
    /\ \E installs \in SharedNameInstallListings : AfterInstalls(r, installs)

\* A mutation of InstallsRejected: no finally block clears the flag.
InstallsRejected_NoFinally(r) ==
    /\ pc[r] = "fetchAllInstalls"
    /\ pc' = [pc EXCEPT ![r] = "threw"]
    /\ result' = [result EXCEPT ![r] = Threw]
    /\ runs' = [runs EXCEPT ![myRun[r]].state = "failed"]
    /\ UNCHANGED <<cachedData, isRefreshing, refreshProgress, loc, myRun, inFlightAtCall, cl, storeVars>>

\* fetchAllInstalls rejects: refreshData rethrows after its finally block.
InstallsRejected(r) ==
    /\ pc[r] = "fetchAllInstalls"
    /\ isRefreshing' = FALSE
    /\ pc' = [pc EXCEPT ![r] = "threw"]
    /\ result' = [result EXCEPT ![r] = Threw]
    /\ runs' = [runs EXCEPT ![myRun[r]].state = "failed"]
    /\ UNCHANGED <<cachedData, refreshProgress, loc, myRun, inFlightAtCall, cl, storeVars>>

\* The outcomes of the API call of fetchDomains for an install.
FetchOutcomes(installId) ==
    {Rejected} \cup {Fulfilled(ds) : ds \in DomainListings(installId)}

\* The domain fetch in slot k of the current batch settles, its API call
\* having had the outcome.
FetchDomainsSettledWith(r, k, outcome) ==
    /\ pc[r] = "fetchDomains"
    /\ k \in DOMAIN loc[r].slots
    /\ loc[r].slots[k] = None
    /\ LET l == loc[r]
           inst == l.installs[l.i + k]
           slots == [l.slots EXCEPT ![k] =
                        Some([install |-> inst, domains |-> fetchDomains(outcome)])]
       IN  IF ~AllSettled(slots)
           THEN Continue(r, "fetchDomains", [l EXCEPT !.slots = slots], refreshProgress)
           ELSE LET results == l.results \o SlotValues(slots)
                    i == l.i + INSTALL_CONCURRENCY
                IN  IF i < Len(l.installs)
                    THEN Continue(r, "fetchDomains",
                             [l EXCEPT !.results = results, !.i = i,
                                  !.slots = LaunchBatch(l.installs, i, INSTALL_CONCURRENCY)],
                             refreshProgress)
                    ELSE AfterDomains(r, [l EXCEPT !.installDomains = results,
                                                   !.slots = <<>>])

\* One domain fetch of the current batch settles.
FetchDomainsSettled(r) ==
    /\ pc[r] = "fetchDomains"
    /\ \E k \in DOMAIN loc[r].slots :
          \E outcome \in FetchOutcomes(loc[r].installs[loc[r].i + k].id) :
              FetchDomainsSettledWith(r, k, outcome)

\* The DNS lookup in slot k of the current batch settles, its two resolver
\* calls having had the outcomes resolve4 and resolveCname.
DnsLookupSettledWith(r, k, resolve4, resolveCname) ==
    /\ pc[r] = "dnsLookup"
    /\ k \in DOMAIN loc[r].slots
    /\ loc[r].slots[k] = None
    /\ LET l == loc[r]
           d == l.allCustomDomains[l.i + k]
           n == Len(l.allCustomDomains)
           dnsResult == dnsLookup(resolve4, resolveCname)
           slots == [l.slots EXCEPT ![k] = Some(dnsResult)]
           done == l.done + 1
           progress == IF done % PROGRESS_EVERY = 0
                       THEN Progress("DNS:", done, n) ELSE refreshProgress
           l2 == [l EXCEPT !.dnsResults = Assign(l.dnsResults, d.id, dnsResult),
                           !.done = done, !.slots = slots]
       IN  IF ~AllSettled(slots)
           THEN Continue(r, "dnsLookup", l2, progress)
           ELSE LET i == l.i + DNS_CONCURRENCY
                IN  IF i < n
                    THEN Continue(r, "dnsLookup",
                             [l2 EXCEPT !.results = l.results \o SlotValues(slots),
                                  !.i = i,
                                  !.slots = LaunchBatch(l.allCustomDomains, i, DNS_CONCURRENCY)],
                             progress)
                    ELSE \E lv \in {l2} : Complete(r, lv)

\* One DNS lookup of the current batch settles.
DnsLookupSettled(r) ==
    \E k \in DOMAIN loc[r].slots :
        \E resolve4 \in Resolve4Outcomes, resolveCname \in ResolveCnameOutcomes :
            DnsLookupSettledWith(r, k, resolve4, resolveCname)

Next ==
    \E r \in Callers :
        \/ StartRefresh(r)
        \/ WaitForRefresh(r)
        \/ PollRefresh(r)
        \/ InstallsFulfilled(r)
        \/ InstallsRejected(r)
        \/ FetchDomainsSettled(r)
        \/ DnsLookupSettled(r)

Spec ==
    Init /\ [][Next]_vars

(***************************************************************************)
(* The routes that read the snapshot and change the Override Store, and    *)
(* the restart of the process.  A route handler runs to its end without    *)
(* interruption: it answers in one step, and nothing else runs until the   *)
(* response has been sent.                                                 *)
(***************************************************************************)
\* The number of callers that call refreshData while the routes are exercised.
NumRefreshCalls == 2

RefreshCallers ==
    1..NumRefreshCalls

\* The domain of a request body: two names, or none.
RequestDomains ==
    {NAME_A, NAME_B, Undefined}

\* A mutation of GetData: the overrides are written into the live snapshot.
GetData_StoresProjection ==
    /\ response = None
    /\ response' = Some(Response("GET /api/data", 200, Undefined,
                                 IF cachedData # None
                                 THEN applyConfirmedOverrides(cachedData, confirmedDomains)
                                 ELSE Some(EmptyData)))
    /\ cachedData' = IF cachedData = None THEN None
                     ELSE Some(Spread(applyConfirmedOverrides(cachedData, confirmedDomains)[1],
                                      [run |-> cachedData[1].run]))
    /\ UNCHANGED <<isRefreshing, refreshProgress, pc, loc, result, runs, myRun,
                   inFlightAtCall, cl, confirmedDomains, confirmedFile, loadFailed>>
\* A mutation of GetData: while a refresh is running the live snapshot is
\* served as it is, without the overrides.
GetData_RawWhileRefreshing ==
    /\ response = None
    /\ response' = Some(Response("GET /api/data", 200, Undefined,
                                 IF cachedData # None
                                 THEN (IF isRefreshing THEN cachedData
                                       ELSE applyConfirmedOverrides(cachedData, confirmedDomains))
                                 ELSE Some(EmptyData)))
    /\ UNCHANGED <<pipelineVars, cl, confirmedDomains, confirmedFile, loadFailed>>
\* GET /api/data
GetData ==
    /\ response = None
    /\ response' = Some(Response("GET /api/data", 200, Undefined,
                                 IF cachedData # None
                                 THEN applyConfirmedOverrides(cachedData, confirmedDomains)
                                 ELSE Some(EmptyData)))
    /\ UNCHANGED <<pipelineVars, cl, confirmedDomains, confirmedFile, loadFailed>>

\* A mutation of PostConfirm: the body is not checked, and a request without
\* a domain stores an entry under the key "undefined".
PostConfirm_Unchecked(domain, t) ==
    /\ response = None
    /\ confirmedDomains' = Assign(confirmedDomains, domain, [confirmedAt |-> t])
    /\ confirmedFile' = saveConfirmed(confirmedDomains')
    /\ response' = Some(Response("POST /api/confirm", 200, domain, None))
    /\ UNCHANGED <<pipelineVars, cl, loadFailed>>
\* POST /api/confirm with the body's domain, Date being read at instant t.
PostConfirm(domain, t) ==
    /\ response = None
    /\ IF ~Truthy(domain)
       THEN /\ response' = Some(Response("POST /api/confirm", 400, domain, None))
            /\ UNCHANGED <<confirmedDomains, confirmedFile>>
       ELSE /\ confirmedDomains' = Assign(confirmedDomains, domain, [confirmedAt |-> t])
            /\ confirmedFile' = saveConfirmed(confirmedDomains')
            /\ response' = Some(Response("POST /api/confirm", 200, domain, None))
    /\ UNCHANGED <<pipelineVars, cl, loadFailed>>

\* DELETE /api/confirm with the body's domain.
DeleteConfirm(domain) ==
    /\ response = None
    /\ IF ~Truthy(domain)
       THEN /\ response' = Some(Response("DELETE /api/confirm", 400, domain, None))
            /\ UNCHANGED <<confirmedDomains, confirmedFile>>
       ELSE /\ confirmedDomains' = Delete(confirmedDomains, domain)
            /\ confirmedFile' = saveConfirmed(confirmedDomains')
            /\ response' = Some(Response("DELETE /api/confirm", 200, domain, None))
    /\ UNCHANGED <<pipelineVars, cl, loadFailed>>

\* What a failed fs.writeFileSync can leave of the file: the file as it was
\* (it could not be opened), or a truncated file.
FailedWriteLeaves(file) ==
    {file, Some(Garbled)}

\* A mutation of PostConfirmWriteFails: the exception of the write is caught
\* and the request is answered with success.
PostConfirmWriteFails_Swallowed(domain, t, left) ==
    /\ response = None
    /\ Truthy(domain)
    /\ confirmedDomains' = Assign(confirmedDomains, domain, [confirmedAt |-> t])
    /\ confirmedFile' = left
    /\ response' = Some(Response("POST /api/confirm", 200, domain, None))
    /\ UNCHANGED <<pipelineVars, cl, loadFailed>>
\* POST /api/confirm when fs.writeFileSync throws: the mapping has been changed
\* in memory, the exception leaves the handler and Express answers 500.
PostConfirmWriteFails(domain, t, left) ==
    /\ response = None
    /\ Truthy(domain)
    /\ confirmedDomains' = Assign(confirmedDomains, domain, [confirmedAt |-> t])
    /\ confirmedFile' = left
    /\ response' = Some(Response("POST /api/confirm", 500, domain, None))
    /\ UNCHANGED <<pipelineVars, cl, loadFailed>>

\* DELETE /api/confirm when fs.writeFileSync throws.
DeleteConfirmWriteFails(domain, left) ==
    /\ response = None
    /\ Truthy(domain)
    /\ confirmedDomains' = Delete(confirmedDomains, domain)
    /\ confirmedFile' = left
    /\ response' = Some(Response("DELETE /api/confirm", 500, domain, None))
    /\ UNCHANGED <<pipelineVars, cl, loadFailed>>

\* The response has been sent; the handler's turn is over.
ResponseSent ==
    /\ response # None
    /\ response' = None
    /\ UNCHANGED <<pipelineVars, cl, confirmedDomains, confirmedFile, loadFailed>>

\* The process stops and starts again: the module-level variables are
\* initialised anew, the calls in flight are gone with the old process.
Restart ==
    /\ response = None
    /\ confirmedDomains' = loadConfirmed(confirmedFile)
    /\ loadFailed' = ParseFails(confirmedFile)
    /\ cachedData' = None
    /\ isRefreshing' = FALSE
    /\ refreshProgress' = NoProgress
    /\ pc' = [r \in Callers |-> IF pc[r] \in {"idle", "returned", "threw"}
                                THEN pc[r] ELSE "gone"]
    /\ loc' = [r \in Callers |-> NoLocals]
    /\ runs' = [k \in DOMAIN runs |-> IF runs[k].state = "running"
                                      THEN [runs[k] EXCEPT !.state = "lost"]
                                      ELSE runs[k]]
    /\ UNCHANGED <<result, myRun, inFlightAtCall, cl, confirmedFile, response>>

\* A mutation of RestartReadFails: the mapping of the old process is kept.
RestartReadFails_KeepsStore ==
    /\ response = None
    /\ confirmedFile # None
    /\ confirmedDomains' = confirmedDomains
    /\ loadFailed' = TRUE
    /\ cachedData' = None
    /\ isRefreshing' = FALSE
    /\ refreshProgress' = NoProgress
    /\ pc' = [r \in Callers |-> IF pc[r] \in {"idle", "returned", "threw"}
                                THEN pc[r] ELSE "gone"]
    /\ loc' = [r \in Callers |-> NoLocals]
    /\ runs' = [k \in DOMAIN runs |-> IF runs[k].state = "running"
                                      THEN [runs[k] EXCEPT !.state = "lost"]
                                      ELSE runs[k]]
    /\ UNCHANGED <<result, myRun, inFlightAtCall, cl, confirmedFile, response>>
\* The process starts again and fs.readFileSync throws (the file exists and
\* cannot be read): loadConfirmed catches the exception and returns {}.
RestartReadFails ==
    /\ response = None
    /\ confirmedFile # None
    /\ confirmedDomains' = EmptyObject
    /\ loadFailed' = TRUE
    /\ cachedData' = None
    /\ isRefreshing' = FALSE
    /\ refreshProgress' = NoProgress
    /\ pc' = [r \in Callers |-> IF pc[r] \in {"idle", "returned", "threw"}
                                THEN pc[r] ELSE "gone"]
    /\ loc' = [r \in Callers |-> NoLocals]
    /\ runs' = [k \in DOMAIN runs |-> IF runs[k].state = "running"
                                      THEN [runs[k] EXCEPT !.state = "lost"]
                                      ELSE runs[k]]
    /\ UNCHANGED <<result, myRun, inFlightAtCall, cl, confirmedFile, response>>

\* The callers are interchangeable: they call refreshData in the order of
\* their numbers.
NextToCall(r) ==
    \A q \in 1..(r - 1) : pc[q] # "idle"

OverrideNext ==
    \/ \E r \in RefreshCallers : response = None /\ NextToCall(r) /\ StartRefresh(r)
    \/ \E r \in RefreshCallers : response = None /\ NextToCall(r) /\ WaitForRefresh(r)
    \/ \E r \in RefreshCallers : response = None /\ PollRefresh(r)
    \/ \E r \in RefreshCallers : response = None /\ InstallsFulfilled(r)
    \/ \E r \in RefreshCallers : response = None /\ InstallsRejected(r)
    \/ \E r \in RefreshCallers : response = None /\ FetchDomainsSettled(r)
    \/ \E r \in RefreshCallers : response = None /\ DnsLookupSettled(r)
    \/ GetData
    \/ \E domain \in RequestDomains, t \in Times : PostConfirm(domain, t)
    \/ \E domain \in RequestDomains : DeleteConfirm(domain)
    \/ ResponseSent
    \/ Restart

OverrideSpec ==
    Init /\ [][OverrideNext]_vars

(***************************************************************************)
(* The same routes over the second account, whose domain name is attached  *)
(* to two installs and changes its id between refreshes.                   *)
(***************************************************************************)
\* The domain of a request body: the name of the second account, or none.
SharedNameRequestDomains ==
    {NAME_A, Undefined}

SharedNameNext ==
    \/ \E r \in RefreshCallers : response = None /\ NextToCall(r) /\ StartRefresh(r)
    \/ \E r \in RefreshCallers : response = None /\ NextToCall(r) /\ WaitForRefresh(r)
    \/ \E r \in RefreshCallers : response = None /\ PollRefresh(r)
    \/ \E r \in RefreshCallers : response = None /\ InstallsFulfilledSharedName(r)
    \/ \E r \in RefreshCallers : response = None /\ InstallsRejected(r)
    \/ \E r \in RefreshCallers : response = None /\ FetchDomainsSettled(r)
    \/ \E r \in RefreshCallers : response = None /\ DnsLookupSettled(r)
    \/ GetData
    \/ \E domain \in SharedNameRequestDomains, t \in Times : PostConfirm(domain, t)
    \/ \E domain \in SharedNameRequestDomains : DeleteConfirm(domain)
    \/ ResponseSent

SharedNameSpec ==
    Init /\ [][SharedNameNext]_vars

(***************************************************************************)
(* The routes with a disk that can fail: a write of confirmed.json can     *)
(* throw, and the file can be unreadable when the process starts.          *)
(***************************************************************************)
\* The domain of a request body: one name, or none.
DurableRequestDomains ==
    {NAME_A, Undefined}

\* The instant at which a confirm request reads the clock.
DurableTimes ==
    {1}

DurableNext ==
    \/ \E r \in RefreshCallers : response = None /\ NextToCall(r) /\ StartRefresh(r)
    \/ \E r \in RefreshCallers : response = None /\ NextToCall(r) /\ WaitForRefresh(r)
    \/ \E r \in RefreshCallers : response = None /\ PollRefresh(r)
    \/ \E r \in RefreshCallers : response = None /\ InstallsFulfilled(r)
    \/ \E r \in RefreshCallers : response = None /\ InstallsRejected(r)
    \/ \E r \in RefreshCallers : response = None /\ FetchDomainsSettled(r)
    \/ \E r \in RefreshCallers : response = None /\ DnsLookupSettled(r)
    \/ GetData
    \/ \E domain \in DurableRequestDomains, t \in DurableTimes : PostConfirm(domain, t)
    \/ \E domain \in DurableRequestDomains : DeleteConfirm(domain)
    \/ \E domain \in DurableRequestDomains, t \in DurableTimes :
          \E left \in FailedWriteLeaves(confirmedFile) : PostConfirmWriteFails(domain, t, left)
    \/ \E domain \in DurableRequestDomains :
          \E left \in FailedWriteLeaves(confirmedFile) : DeleteConfirmWriteFails(domain, left)
    \/ ResponseSent
    \/ Restart
    \/ RestartReadFails

DurableSpec ==
    Init /\ [][DurableNext]_vars

(***************************************************************************)
(* The classifier as a pure function: ClassifySpec draws the arguments of  *)
(* one call of determineDomainStatus and applies it.  DNS results are the  *)
(* results dnsLookup can produce, or null (no lookup was made).            *)
(***************************************************************************)
ClNames ==
    { NAME_A,                                   \* a customer domain
      NAME_SYS,                                 \* x.wpengine.com
      <<"c">> \o SUFFIX_WPENGINEPOWERED,        \* x.wpenginepowered.com
      <<"w","p","e","n","g","i","n","e",".","c","o","m">>,   \* no leading dot
      <<"d">> \o SUFFIX_WPESVC }                \* a CNAME suffix, not a system suffix

ClStatuses ==
    { Undefined, Null, <<>>,
      STR_ACTIVE, <<"a","c","t","i","v","e">>, <<"A","c","t","i","v","e">>,
      STR_PENDING, <<"P","e","n","d","i","n","g">>,
      STR_DELETED, <<"d","e","l","e","t","e","d">>,
      <<"L","E","G","A","C","Y">>, <<"l","e","g","a","c","y">> }

CNAME_EXPECTED ==
    <<"t",".","w","p","e",".","i","o">>

CNAME_OTHER ==
    <<"c","d","n",".","u","n","r","e","l","a","t","e","d",".","n","e","t">>

CNAME_INSTALL ==
    <<"i",".","c","u","s","t",".","i","o">>

ClExpectedCnames ==
    { Undefined, <<>>, CNAME_EXPECTED }

ClExpectedARecords ==
    { None, Some(<<>>), Some(<<IP_EXPECTED>>) }

ClResolve4Outcomes ==
    { Rejected, Fulfilled(<<>>), Fulfilled(<<IP_EXPECTED>>), Fulfilled(<<IP_WPE>>),
      Fulfilled(<<IP_OTHER>>), Fulfilled(<<IP_OTHER, IP_EXPECTED>>) }

ClResolveCnameOutcomes ==
    { Rejected, Fulfilled(<<>>), Fulfilled(<<<<"e">> \o SUFFIX_WPEPROXY>>),
      Fulfilled(<<CNAME_OTHER>>), Fulfilled(<<CNAME_INSTALL>>), Fulfilled(<<NAME_B>>),
      Fulfilled(<<CNAME_EXPECTED>>), Fulfilled(<<CNAME_OTHER, CNAME_EXPECTED>>) }

ClDnsResults ==
    {None} \cup {Some(dnsLookup(a, c)) : a \in ClResolve4Outcomes, c \in ClResolveCnameOutcomes}

ClInstallCnames ==
    { Undefined, CNAME_INSTALL }

ClIndexes ==
    { {}, {NAME_A, NAME_B} }

ClassifyInit ==
    /\ InitPipeline
    /\ InitStore
    /\ cl \in { ClCall(Domain(name, 1, status, cname, a_records), dnsResult, installCname,
                       allDomainNames, None) :
                  name \in ClNames, status \in ClStatuses, cname \in ClExpectedCnames,
                  a_records \in ClExpectedARecords, dnsResult \in ClDnsResults,
                  installCname \in ClInstallCnames, allDomainNames \in ClIndexes }

\* The local dnsMatches of determineDomainStatus when it returns: None when
\* the function returned before computing it.
dnsMatchesLocal(domain, dnsResult, installCname, allDomainNames) ==
    IF isSystemName(domain.name) THEN None
    ELSE Some(IF dnsResult # None
              THEN dnsPointsToWPE(dnsResult, installCname, allDomainNames)
              ELSE FALSE)

\* determineDomainStatus is called on the drawn arguments.
Classify ==
    /\ cl.out = None
    /\ cl' = [cl EXCEPT !.out = Some(determineDomainStatus(cl.domain, cl.dnsResult,
                                                           cl.installCname, cl.allDomainNames)),
                        !.dnsMatches = dnsMatchesLocal(cl.domain, cl.dnsResult,
                                                       cl.installCname, cl.allDomainNames)]
    /\ UNCHANGED <<pipelineVars, storeVars>>

ClassifyNext ==
    Classify

ClassifySpec ==
    ClassifyInit /\ [][ClassifyNext]_vars

(***************************************************************************)
(* The refresh of the start-up call with a resolver that can answer each   *)
(* of the two calls of a lookup in every way: failure, no record, records. *)
(***************************************************************************)
LookupCallers ==
    {1}

LookupNext ==
    \/ \E r \in LookupCallers : StartRefresh(r)
    \/ \E r \in LookupCallers : InstallsFulfilled(r)
    \/ \E r \in LookupCallers : InstallsRejected(r)
    \/ \E r \in LookupCallers : FetchDomainsSettled(r)
    \/ \E r \in LookupCallers : \E k \in DOMAIN loc[r].slots :
          \E resolve4 \in ClResolve4Outcomes, resolveCname \in ClResolveCnameOutcomes :
              DnsLookupSettledWith(r, k, resolve4, resolveCname)

LookupSpec ==
    Init /\ [][LookupNext]_vars

(***************************************************************************)
(* The refresh over the third account, whose installs and custom domains   *)
(* do not fit one batch.  The start-up call is followed by one request    *)
(* for a refresh, made when the first refresh is over; the API and the     *)
(* resolver answer as the account prescribes, and what varies is the order *)
(* in which the tasks of a batch complete: any order for the domain        *)
(* fetches, and for the DNS lookups any order in which the next lookup to  *)
(* complete is the first or the last outstanding one.                      *)
(***************************************************************************)
BatchCallers ==
    {1, 2}

\* The slots of the current batch whose task has not settled.
Outstanding(slots) ==
    {k \in DOMAIN slots : slots[k] = None}

\* The first and the last outstanding slot.
EndsOutstanding(slots) ==
    {k \in Outstanding(slots) :
        \/ \A j \in Outstanding(slots) : k <= j
        \/ \A j \in Outstanding(slots) : k >= j}

\* fetchAllInstalls resolves with the installs of the third account.
InstallsFulfilledBatch(r) ==
    /\ pc[r] = "fetchAllInstalls"
    /\ \E installs \in BatchInstallListings : AfterInstalls(r, installs)

\* A domain fetch of the current batch settles as the account prescribes.
FetchDomainsSettledBatch(r) ==
    /\ pc[r] = "fetchDomains"
    /\ \E k \in Outstanding(loc[r].slots) :
          FetchDomainsSettledWith(r, k,
              BatchFetchOutcome(loc[r].installs[loc[r].i + k].id))

\* The DNS lookup of the first or last outstanding slot settles with the
\* answers the resolver has for the name looked up, d.name.
DnsLookupSettledBatch(r) ==
    /\ pc[r] = "dnsLookup"
    /\ \E k \in EndsOutstanding(loc[r].slots) :
          LET d == loc[r].allCustomDomains[loc[r].i + k]
          IN  DnsLookupSettledWith(r, k, BatchResolve4(d.name, myRun[r]),
                                         BatchResolveCname(d.name, myRun[r]))

BatchNext ==
    \E r \in BatchCallers :
        \/ NextToCall(r) /\ (\A q \in 1..(r - 1) : pc[q] = "returned") /\ StartRefresh(r)
        \/ InstallsFulfilledBatch(r)
        \/ FetchDomainsSettledBatch(r)
        \/ DnsLookupSettledBatch(r)

BatchSpec ==
    Init /\ [][BatchNext]_vars

(***************************************************************************)
(* The terms of the classifier's contract, stated on the arguments of a    *)
(* call and not through the classifier's own operators.                    *)
(***************************************************************************)
ClCalled ==
    cl.out # None

ClVerdict ==
    cl.out[1]

\* The name carries one of the provider's internal suffixes.
HasInternalSuffix(name) ==
    \E suffix \in {SUFFIX_WPENGINE, SUFFIX_WPENGINEPOWERED} :
        /\ Len(name) >= Len(suffix)
        /\ \A i \in 1..Len(suffix) : name[Len(name) - Len(suffix) + i] = suffix[i]

IsString(s) ==
    s # Undefined /\ s # Null

\* s spells word, each letter in either case (word is in upper case).
SpellsInAnyCase(s, word) ==
    /\ IsString(s)
    /\ Len(s) = Len(word)
    /\ \A i \in 1..Len(word) :
         \/ s[i] = word[i]
         \/ \E k \in DOMAIN UpperCaseLetters :
              UpperCaseLetters[k] = word[i] /\ LowerCaseLetters[k] = s[i]

\* The provider fingerprint of section 4.1, on a DNS result that exists.
FingerprintMatches(r, installCname, allDomainNames) ==
    \/ \E c \in Range(r.cnames) : \E suffix \in Range(WPE_CNAME_SUFFIXES) : EndsWith(c, suffix)
    \/ \E c \in Range(r.cnames) : c = installCname
    \/ \E c \in Range(r.cnames) : c \in allDomainNames
    \/ \E ip \in Range(r.ips) : \E prefix \in Range(WPE_IP_PREFIXES) : StartsWith(ip, prefix)

\* A resolved A-record is in the provider's expected A-record list.
ARecordExpected(domain, r) ==
    /\ domain.a_records # None
    /\ Range(r.ips) \cap Range(domain.a_records[1]) # {}

\* A resolved CNAME equals the provider's expected CNAME.
CnameExpected(domain, r) ==
    /\ IsString(domain.cname)
    /\ domain.cname \in Range(r.cnames)

\* Any of the three ways a DNS result corroborates an ACTIVE domain.
ClCorroborated ==
    /\ cl.dnsResult # None
    /\ \/ FingerprintMatches(cl.dnsResult[1], cl.installCname, cl.allDomainNames)
       \/ ARecordExpected(cl.domain, cl.dnsResult[1])
       \/ CnameExpected(cl.domain, cl.dnsResult[1])

ClActiveCustom ==
    /\ ClCalled
    /\ ~HasInternalSuffix(cl.domain.name)
    /\ SpellsInAnyCase(cl.domain.status, STR_ACTIVE)

\* C6: a domain whose name carries a provider-internal suffix is classified
\* system with reason "System domain", whatever its declared network status
\* and whatever the DNS result (none included).
C6_SystemAlways ==
    (ClCalled /\ HasInternalSuffix(cl.domain.name))
        => ClVerdict = Verdict("system", DETAIL_SYSTEM)

\* C6 witness: a .wpenginepowered.com name declared PENDING, with a DNS result
\* that resolved elsewhere, has been classified.
C6_Witness ==
    /\ ClCalled
    /\ cl.domain.name = <<"c">> \o SUFFIX_WPENGINEPOWERED
    /\ cl.domain.status = STR_PENDING
    /\ cl.dnsResult # None
    /\ cl.dnsResult[1].ips = <<IP_OTHER>>
    /\ ClVerdict.status = "system"

\* C7: a non-system domain declared ACTIVE in any letter case is classified
\* good with reason "Active & DNS pointed" whenever the fingerprint matches, or
\* a resolved A-record is expected, or a resolved CNAME is the expected CNAME.
C7_ActivePointed ==
    (ClActiveCustom /\ ClCorroborated)
        => ClVerdict = Verdict("good", DETAIL_ACTIVE_POINTED)

\* C7 witness: a domain declared "active" in lower case whose only evidence is
\* a resolved CNAME equal to the expected CNAME has been classified good.
C7_Witness ==
    /\ ClActiveCustom
    /\ cl.domain.status = <<"a","c","t","i","v","e">>
    /\ cl.dnsResult # None
    /\ ~FingerprintMatches(cl.dnsResult[1], cl.installCname, cl.allDomainNames)
    /\ ~ARecordExpected(cl.domain, cl.dnsResult[1])
    /\ CnameExpected(cl.domain, cl.dnsResult[1])
    /\ ClVerdict.status = "good"

\* C8: a non-system ACTIVE domain with a DNS result that matches neither the
\* fingerprint nor the expected records is classified issue: "DNS not pointed
\* to WPE" when the result resolved, "DNS not resolving" when it did not.
C8_ActiveNotPointed ==
    (ClActiveCustom /\ cl.dnsResult # None /\ ~ClCorroborated)
        => /\ ClVerdict.status = "issue"
           /\ cl.dnsResult[1].resolved => ClVerdict.detail = DETAIL_NOT_POINTED
           /\ ~cl.dnsResult[1].resolved => ClVerdict.detail = DETAIL_NOT_RESOLVING

\* C8 witness: an ACTIVE domain with expected A-records whose DNS resolved to an
\* unrelated CNAME and an unrelated address has been classified issue.
C8_Witness ==
    /\ ClActiveCustom
    /\ cl.domain.a_records = Some(<<IP_EXPECTED>>)
    /\ cl.dnsResult # None
    /\ cl.dnsResult[1].cnames = <<CNAME_OTHER>>
    /\ cl.dnsResult[1].ips = <<IP_OTHER>>
    /\ ClVerdict = Verdict("issue", DETAIL_NOT_POINTED)

\* C9: a non-system ACTIVE domain for which no DNS check was made (no DNS
\* result at all) is classified good with reason "Active (API)".
C9_ActiveNoDns ==
    (ClActiveCustom /\ cl.dnsResult = None)
        => ClVerdict = Verdict("good", DETAIL_ACTIVE_API)

\* C9 witness: a domain declared "Active" with no DNS result has been classified.
C9_Witness ==
    /\ ClActiveCustom
    /\ cl.domain.status = <<"A","c","t","i","v","e">>
    /\ cl.dnsResult = None
    /\ ClVerdict.detail = DETAIL_ACTIVE_API

\* C10: a non-system domain declared PENDING is classified pending with reason
\* "Pending setup" whatever the DNS result, a matching one included.
C10_PendingAlways ==
    (ClCalled /\ ~HasInternalSuffix(cl.domain.name) /\ cl.domain.status = STR_PENDING)
        => ClVerdict = Verdict("pending", DETAIL_PENDING)

\* C10 witness: a PENDING domain whose DNS result matches the provider
\* fingerprint (a provider address) has been classified pending.
C10_Witness ==
    /\ ClCalled
    /\ ~HasInternalSuffix(cl.domain.name)
    /\ cl.domain.status = STR_PENDING
    /\ cl.dnsResult # None
    /\ FingerprintMatches(cl.dnsResult[1], cl.installCname, cl.allDomainNames)
    /\ ClVerdict.status = "pending"

\* C11: a non-system domain declared DELETED is classified issue with reason
\* "Network deleted" whatever the DNS result, one that matches the provider
\* fingerprint included.
C11_DeletedAlways ==
    (ClCalled /\ ~HasInternalSuffix(cl.domain.name) /\ cl.domain.status = STR_DELETED)
        => ClVerdict = Verdict("issue", DETAIL_DELETED)

\* C11 witness: a DELETED domain whose DNS result resolved to a provider CNAME
\* has been classified issue.
C11_Witness ==
    /\ ClCalled
    /\ ~HasInternalSuffix(cl.domain.name)
    /\ cl.domain.status = STR_DELETED
    /\ cl.dnsResult # None
    /\ cl.dnsResult[1].cnames = <<<<"e">> \o SUFFIX_WPEPROXY>>
    /\ FingerprintMatches(cl.dnsResult[1], cl.installCname, cl.allDomainNames)
    /\ ClVerdict.detail = DETAIL_DELETED

\* A non-system domain for which the provider declared no network status.
ClLegacyCustom ==
    /\ ClCalled
    /\ ~HasInternalSuffix(cl.domain.name)
    /\ ~IsString(cl.domain.status)

\* C12: a non-system domain with no declared network status is classified on
\* the provider fingerprint alone, the expected A-records and the expected
\* CNAME playing no part: good "DNS pointed (Legacy)" when the fingerprint
\* matches, issue "DNS not pointed to WPE" when DNS resolved without matching,
\* issue "DNS not resolving" when it did not resolve, and unknown
\* "No status data" when there is no DNS result.
C12_LegacyByFingerprint ==
    ClLegacyCustom =>
        ClVerdict =
            IF cl.dnsResult = None THEN Verdict("unknown", DETAIL_NO_DATA)
            ELSE IF FingerprintMatches(cl.dnsResult[1], cl.installCname, cl.allDomainNames)
                THEN Verdict("good", DETAIL_LEGACY)
            ELSE IF cl.dnsResult[1].resolved THEN Verdict("issue", DETAIL_NOT_POINTED)
            ELSE Verdict("issue", DETAIL_NOT_RESOLVING)

\* C12 witness: a domain without network status whose DNS resolved to an
\* expected A-record and to the expected CNAME, neither matching the
\* fingerprint, has been classified issue "DNS not pointed to WPE".
C12_Witness ==
    /\ ClLegacyCustom
    /\ cl.dnsResult # None
    /\ ARecordExpected(cl.domain, cl.dnsResult[1])
    /\ CnameExpected(cl.domain, cl.dnsResult[1])
    /\ ~FingerprintMatches(cl.dnsResult[1], cl.installCname, cl.allDomainNames)
    /\ ClVerdict = Verdict("issue", DETAIL_NOT_POINTED)

\* The declared status is a string that spells none of ACTIVE, PENDING and
\* DELETED in any letter case.
ClOtherStatus ==
    /\ ClCalled
    /\ ~HasInternalSuffix(cl.domain.name)
    /\ IsString(cl.domain.status)
    /\ \A word \in {STR_ACTIVE, STR_PENDING, STR_DELETED} :
          ~SpellsInAnyCase(cl.domain.status, word)

\* C14: a non-system domain whose declared status is a string other than
\* ACTIVE, PENDING or DELETED is classified unknown, and the reason is the
\* declared status exactly as the provider sent it, or "Unknown" when that
\* string is empty.
C14_OtherStatusRaw ==
    ClOtherStatus =>
        ClVerdict = Verdict("unknown", IF cl.domain.status = <<>> THEN DETAIL_UNKNOWN
                                       ELSE cl.domain.status)

\* The resolved CNAME carries a provider suffix; the resolved address carries
\* a provider prefix.
CnameHasSuffix(c) ==
    \E suffix \in {SUFFIX_WPENGINE, SUFFIX_WPENGINEPOWERED, SUFFIX_WPESVC, SUFFIX_WPEPROXY} :
        /\ Len(c) >= Len(suffix)
        /\ \A i \in 1..Len(suffix) : c[Len(c) - Len(suffix) + i] = suffix[i]

IpHasPrefix(ip) ==
    \E prefix \in {PREFIX_141, PREFIX_35, PREFIX_172} :
        /\ Len(ip) >= Len(prefix)
        /\ \A i \in 1..Len(prefix) : ip[i] = prefix[i]

\* The four conditions on the arguments of the call, each evaluated on its
\* own.
ClFourConditions ==
    <<\E i \in DOMAIN cl.dnsResult[1].cnames : CnameHasSuffix(cl.dnsResult[1].cnames[i]),
      \E i \in DOMAIN cl.dnsResult[1].cnames : cl.dnsResult[1].cnames[i] = cl.installCname,
      \E i \in DOMAIN cl.dnsResult[1].cnames : cl.dnsResult[1].cnames[i] \in cl.allDomainNames,
      \E i \in DOMAIN cl.dnsResult[1].ips : IpHasPrefix(cl.dnsResult[1].ips[i])>>

\* C24: for a call that computed the fingerprint match, the match is true
\* exactly when one of the four conditions holds on the DNS result (some CNAME
\* with a provider suffix, some CNAME equal to the install's CNAME, some CNAME
\* in the cross-install index, some A-record with a provider prefix), whichever
\* of them it is and whatever the others are; without a DNS result it is false.
C24_FingerprintIsOr ==
    (ClCalled /\ cl.dnsMatches # None) =>
        IF cl.dnsResult = None
        THEN cl.dnsMatches[1] = FALSE
        ELSE /\ cl.dnsMatches[1] = (\E n \in 1..4 : ClFourConditions[n])
             /\ \A n \in 1..4 : ClFourConditions[n] => cl.dnsMatches[1]
             /\ (\A n \in 1..4 : ~ClFourConditions[n]) => ~cl.dnsMatches[1]

\* C24 witness: a call whose DNS result holds a CNAME that meets none of the
\* three CNAME conditions and an A-record with a provider prefix: the match is
\* true by the last condition alone.
C24_Witness ==
    /\ ClCalled
    /\ cl.dnsMatches = Some(TRUE)
    /\ cl.dnsResult # None
    /\ cl.dnsResult[1].cnames = <<CNAME_OTHER>>
    /\ cl.dnsResult[1].ips = <<IP_WPE>>
    /\ ClFourConditions = <<FALSE, FALSE, FALSE, TRUE>>

(***************************************************************************)
(* The refresh protocol.                                                   *)
(***************************************************************************)
\* The pipeline executions that completed with a snapshot.
DoneRuns ==
    {k \in DOMAIN runs : runs[k].state = "done"}

LatestDoneRun ==
    CHOOSE k \in DoneRuns : \A j \in DoneRuns : j <= k

\* C1: at most one refresh pipeline executes at any time, and the in-progress
\* flag is true exactly while one executes, whatever the number of calls and
\* the interleaving of their steps.
C1_SingleFlight ==
    /\ Cardinality({r \in Callers : Executing(r)}) <= 1
    /\ isRefreshing <=> (\E r \in Callers : Executing(r))

\* C1 witness: one pipeline is in its DNS stage while two other callers have
\* called and wait.
C1_Witness ==
    \E r \in Callers :
        /\ pc[r] = "dnsLookup"
        /\ Cardinality({q \in Callers : pc[q] = "waiting"}) >= 2
        /\ isRefreshing

\* a and b are two simultaneous calls: a called with no refresh in flight, b
\* called while a's pipeline was in flight, and every other caller either has
\* not called or ran a pipeline of its own before a called.
TwoSimultaneous(a, b) ==
    /\ a # b
    /\ myRun[a] # 0
    /\ inFlightAtCall[a] = {}
    /\ pc[b] # "idle"
    /\ inFlightAtCall[b] = {myRun[a]}
    /\ \A c \in Callers \ {a, b} :
         \/ pc[c] = "idle"
         \/ myRun[c] # 0 /\ myRun[c] < myRun[a]

\* C2: two simultaneous calls make exactly one pipeline execution, and when
\* both have returned both hold the same snapshot object, the one that
\* execution produced.
C2_TwoCallsOnePipeline ==
    \A a, b \in Callers :
        TwoSimultaneous(a, b) =>
            /\ myRun[b] = 0
            /\ Len(runs) = myRun[a]
            /\ (pc[a] = "returned" /\ pc[b] = "returned") =>
                  /\ result[a] = result[b]
                  /\ result[a] = [kind |-> "data", ref |-> myRun[a]]
                  /\ Ref(cachedData) = myRun[a]

\* C2 witness: two simultaneous calls have both returned, the second after
\* polling.
C2_Witness ==
    \E a, b \in Callers :
        /\ TwoSimultaneous(a, b)
        /\ pc[a] = "returned"
        /\ pc[b] = "returned"
        /\ result[b].ref = myRun[a]

\* C3, in the case where the awaited execution completed with a snapshot: a
\* call made while a refresh is in flight starts no pipeline, does not return
\* before that execution has completed, and returns the snapshot of that very
\* execution.
C3_WaiterGetsAwaitedRun ==
    \A r \in Callers : \A k \in inFlightAtCall[r] :
        /\ myRun[r] = 0
        /\ pc[r] = "returned" => runs[k].state # "running"
        /\ (pc[r] = "returned" /\ runs[k].state = "done") =>
              result[r] = [kind |-> "data", ref |-> k]

\* The counts kept in a snapshot are those of its own sites and domains.
WholeSnapshot(snapshot) ==
    LET allDomains == Flatten([k \in DOMAIN snapshot.sites |-> snapshot.sites[k].domains])
        Custom(status) ==
            Cardinality({i \in DOMAIN allDomains :
                            ~allDomains[i].isSystem /\ allDomains[i].status = status})
    IN  /\ snapshot.stats.totalSites = Len(snapshot.sites)
        /\ snapshot.stats.totalDomains = Len(allDomains)
        /\ snapshot.stats.customDomains =
              Cardinality({i \in DOMAIN allDomains : ~allDomains[i].isSystem})
        /\ snapshot.stats.good = Custom("good")
        /\ snapshot.stats.issues = Custom("issue")
        /\ snapshot.stats.pending = Custom("pending")

\* C4: the live snapshot is replaced only as a whole by a refresh that
\* completed: it is null before the first completed refresh and afterwards the
\* whole snapshot of the latest completed refresh, never one of a refresh
\* still running.
C4_SnapshotWhole ==
    IF DoneRuns = {}
    THEN cachedData = None
    ELSE /\ cachedData # None
         /\ cachedData[1].run = LatestDoneRun
         /\ cachedData[1].run \notin RunsInFlight
         /\ WholeSnapshot(cachedData[1])

\* C4 witness: the snapshot of the first refresh is live while a second refresh
\* holds the DNS result of one domain and still waits for another.
C4_Witness ==
    \E r \in Callers :
        /\ pc[r] = "dnsLookup"
        /\ myRun[r] = 2
        /\ DOMAIN loc[r].dnsResults # {}
        /\ ~AllSettled(loc[r].slots)
        /\ cachedData # None
        /\ cachedData[1].run = 1

\* C5: in the step in which the install listing of a refresh fails, the caller
\* that started the refresh gets the failure, the live snapshot is not written,
\* and the in-progress flag is cleared.
C5_ListingFailure ==
    [][\A r \in Callers :
          (myRun[r] # 0 /\ runs[myRun[r]].state = "running"
                        /\ runs'[myRun[r]].state = "failed")
             => /\ pc'[r] = "threw"
                /\ result'[r] = Threw
                /\ cachedData' = cachedData
                /\ isRefreshing' = FALSE]_vars

\* C5 witness: a refresh failed at its install listing while the snapshot of an
\* earlier refresh was live; that snapshot is still live and no refresh runs.
C5_Witness ==
    \E r \in Callers :
        /\ pc[r] = "threw"
        /\ result[r].kind = "error"
        /\ cachedData # None
        /\ cachedData[1].run < myRun[r]
        /\ ~isRefreshing

(***************************************************************************)
(* The classifier inside the pipeline.                                     *)
(***************************************************************************)
\* Every domain record the provider can list.
WorldDomains ==
    UNION {Range(listing) :
             listing \in UNION {DomainListings(install.id) :
                                   install \in UNION {Range(l) : l \in InstallListings}}}

\* The provider lists the name, and never with a network status.
NoDeclaredStatus(name) ==
    /\ \E d \in WorldDomains : d.name = name
    /\ \A d \in WorldDomains : d.name = name => ~IsString(d.status)

\* The domains of the live snapshot, site after site.
LiveDomains ==
    IF cachedData = None THEN <<>>
    ELSE Flatten([k \in DOMAIN cachedData[1].sites |-> cachedData[1].sites[k].domains])

\* The lookup of d found no A-record and no CNAME.
NothingFound(d) ==
    d.dns = None \/ (d.dns[1].ips = <<>> /\ d.dns[1].cnames = <<>>)

Serving ==
    response # None /\ response[1].route = "GET /api/data"

\* The body being served.
Served ==
    response[1].data[1]

\* The domains of the body being served, site after site.
ServedDomains ==
    IF Serving
    THEN Flatten([k \in DOMAIN Served.sites |-> Served.sites[k].domains])
    ELSE <<>>

\* C15: no domain of the live snapshot, which holds the classifier's verdicts,
\* has verdict confirmed; and a domain of a served snapshot has verdict
\* confirmed only if the live snapshot classifies that domain issue and the
\* override store holds its name.
C15_ConfirmedOnlyProjected ==
    /\ \A k \in DOMAIN LiveDomains : LiveDomains[k].status # "confirmed"
    /\ \A k \in DOMAIN ServedDomains :
          ServedDomains[k].status = "confirmed"
             => /\ k \in DOMAIN LiveDomains
                /\ LiveDomains[k].name = ServedDomains[k].name
                /\ LiveDomains[k].status = "issue"
                /\ ServedDomains[k].name \in DOMAIN confirmedDomains

\* C15 witness: a served snapshot holds a confirmed domain next to a domain
\* classified good whose name is in the override store and which is served
\* good.
C15_Witness ==
    \E j, k \in DOMAIN ServedDomains :
        /\ ServedDomains[j].status = "confirmed"
        /\ LiveDomains[j].status = "issue"
        /\ ServedDomains[k].name \in DOMAIN confirmedDomains
        /\ LiveDomains[k].status = "good"
        /\ ServedDomains[k].status = "good"

\* The projection of a snapshot under an override store: its sites, its
\* domains site after site, and its statistics.
ProjectedSites(data, confirmed) ==
    IF data = None THEN <<>> ELSE applyConfirmedOverrides(data, confirmed)[1].sites

ProjectedDomains(data, confirmed) ==
    LET sites == ProjectedSites(data, confirmed)
    IN  Flatten([k \in DOMAIN sites |-> sites[k].domains])

ProjectedStats(data, confirmed) ==
    applyConfirmedOverrides(data, confirmed)[1].stats

\* The step answers a confirm (unconfirm) request for the name with success.
ConfirmStep(name) ==
    /\ response = None
    /\ response' = Some(Response("POST /api/confirm", 200, name, None))

UnconfirmStep(name) ==
    /\ response = None
    /\ response' = Some(Response("DELETE /api/confirm", 200, name, None))

\* The custom domains of the sequence that carry the name with the verdict.
CustomNamed(domains, name, status) ==
    {k \in DOMAIN domains :
        ~domains[k].isSystem /\ domains[k].name = name /\ domains[k].status = status}

\* C16: in the step that confirms a name, every domain of that name projected
\* issue before the step is projected confirmed after it, with originalDetail
\* the reason projected before; in the step that unconfirms a name, every
\* domain of that name projected confirmed before the step is projected after
\* it as the very record of the live snapshot (verdict issue, the original
\* reason, no further field), and the projected confirmed and issue counts,
\* global and per site, move back by the number of those domains.  The live
\* snapshot is the same before and after: no refresh is involved.
C16_ProjectionRoundTrip ==
    [][\A name \in RequestDomains \ {Undefined} :
          LET before == ProjectedDomains(cachedData, confirmedDomains)
              after == ProjectedDomains(cachedData', confirmedDomains')
              sitesBefore == ProjectedSites(cachedData, confirmedDomains)
              sitesAfter == ProjectedSites(cachedData', confirmedDomains')
              statsBefore == ProjectedStats(cachedData, confirmedDomains)
              statsAfter == ProjectedStats(cachedData', confirmedDomains')
          IN
          /\ ConfirmStep(name) =>
                \A k \in DOMAIN before :
                    (before[k].name = name /\ before[k].status = "issue")
                        => /\ after[k].status = "confirmed"
                           /\ after[k].originalDetail = before[k].detail
          /\ UnconfirmStep(name) =>
                /\ cachedData' = cachedData
                /\ \A k \in DOMAIN before :
                      (before[k].name = name /\ before[k].status = "confirmed")
                          => /\ after[k] = LiveDomains[k]
                             /\ after[k].status = "issue"
                             /\ after[k].detail = before[k].originalDetail
                /\ cachedData # None =>
                      LET n == Cardinality(CustomNamed(before, name, "confirmed"))
                      IN  /\ statsAfter.confirmed = statsBefore.confirmed - n
                          /\ statsAfter.issues = statsBefore.issues + n
                /\ \A s \in DOMAIN sitesBefore :
                      LET n == Cardinality(CustomNamed(sitesBefore[s].domains, name,
                                                       "confirmed"))
                      IN  /\ sitesAfter[s].confirmedCount = sitesBefore[s].confirmedCount - n
                          /\ sitesAfter[s].issueCount = sitesBefore[s].issueCount + n]_vars

\* C16 witness: a confirm of the domain without network status, classified
\* issue "DNS not resolving" in the live snapshot, has just been answered, and
\* the projection shows it confirmed with that reason kept.
C16_Witness ==
    /\ response = Some(Response("POST /api/confirm", 200, NAME_B, None))
    /\ \E k \in DOMAIN LiveDomains :
          LET d == ProjectedDomains(cachedData, confirmedDomains)[k]
          IN  /\ LiveDomains[k] # d
              /\ LiveDomains[k].name = NAME_B
              /\ LiveDomains[k].detail = DETAIL_NOT_RESOLVING
              /\ d.status = "confirmed"
              /\ d.originalDetail = DETAIL_NOT_RESOLVING

\* C17: a confirm of a name the store already holds leaves the store as the
\* first confirm left it, the stored confirmation timestamp included; an
\* unconfirm of a name the store does not hold leaves the store unchanged and
\* is answered with success.
C17_Idempotent ==
    [][\A name \in RequestDomains \ {Undefined} :
          /\ (ConfirmStep(name) /\ name \in DOMAIN confirmedDomains)
                => confirmedDomains' = confirmedDomains
          /\ (/\ response = None
              /\ response' # None
              /\ response'[1].route = "DELETE /api/confirm"
              /\ response'[1].domain = name
              /\ name \notin DOMAIN confirmedDomains)
                => /\ confirmedDomains' = confirmedDomains
                   /\ response'[1].code = 200]_vars

\* The step answers a GET /api/data request.
ReadStep ==
    /\ response = None
    /\ response' # None
    /\ response'[1].route = "GET /api/data"

\* C18: the step that projects the live snapshot for a reader leaves the live
\* snapshot (every verdict, reason and statistic of it), the override store
\* and its file as they were; and in every state, whatever reads, confirms,
\* refreshes and restarts led to it, no domain of the live snapshot has verdict
\* confirmed and the snapshot's counts are those of its own domains.
C18_ProjectionPure ==
    [][/\ ReadStep => /\ cachedData' = cachedData
                      /\ confirmedDomains' = confirmedDomains
                      /\ confirmedFile' = confirmedFile
       /\ \A k \in DOMAIN LiveDomains : LiveDomains[k].status # "confirmed"
       /\ cachedData # None => WholeSnapshot(cachedData[1])]_vars

\* C18 witness: a reader is being served a snapshot in which a domain is
\* confirmed and the issue count is lower than the live snapshot's, while the
\* live snapshot still classifies that domain issue.
C18_Witness ==
    /\ Serving
    /\ cachedData # None
    /\ Served.stats.issues < cachedData[1].stats.issues
    /\ \E k \in DOMAIN ServedDomains :
          /\ ServedDomains[k].status = "confirmed"
          /\ LiveDomains[k].status = "issue"
          /\ LiveDomains[k].detail = ServedDomains[k].originalDetail

\* The number of custom domains of the sequence that carry the verdict.
CustomWith(domains, status) ==
    Cardinality({k \in DOMAIN domains : ~domains[k].isSystem /\ domains[k].status = status})

\* C19: in every served snapshot the global good, issues, confirmed and pending
\* counts and each site's issueCount and confirmedCount are the numbers of
\* custom domains with that verdict among the served domains; served issues
\* plus served confirmed is the live snapshot's issues count, globally and for
\* each site; and the totals of sites, domains and custom domains are the live
\* snapshot's.
C19_ProjectedCounts ==
    (Serving /\ cachedData # None) =>
        LET live == cachedData[1]
        IN  /\ Served.stats.good = CustomWith(ServedDomains, "good")
            /\ Served.stats.issues = CustomWith(ServedDomains, "issue")
            /\ Served.stats.confirmed = CustomWith(ServedDomains, "confirmed")
            /\ Served.stats.pending = CustomWith(ServedDomains, "pending")
            /\ Served.stats.issues + Served.stats.confirmed = live.stats.issues
            /\ Served.stats.totalSites = live.stats.totalSites
            /\ Served.stats.totalDomains = live.stats.totalDomains
            /\ Served.stats.customDomains = live.stats.customDomains
            /\ Len(Served.sites) = Len(live.sites)
            /\ \A s \in DOMAIN Served.sites :
                  LET site == Served.sites[s]
                  IN  /\ site.issueCount = CustomWith(site.domains, "issue")
                      /\ site.confirmedCount = CustomWith(site.domains, "confirmed")
                      /\ site.issueCount + site.confirmedCount = live.sites[s].issueCount
                      /\ Len(site.domains) = Len(live.sites[s].domains)

\* C19 witness: a served snapshot of two sites, each with an issue domain in
\* the live snapshot, of which one is served confirmed and the other issue.
C19_Witness ==
    /\ Serving
    /\ cachedData # None
    /\ Served.stats.confirmed = 1
    /\ Served.stats.issues = 1
    /\ \E s, u \in DOMAIN Served.sites :
          /\ Served.sites[s].confirmedCount = 1
          /\ Served.sites[s].issueCount = 0
          /\ Served.sites[u].issueCount = 1

\* The mapping and the file's text have the same members.
SameMembers(mapping, text) ==
    /\ \A name \in DOMAIN mapping :
          \E i \in DOMAIN text : text[i].key = name /\ text[i].value = mapping[name]
    /\ \A i \in DOMAIN text :
          text[i].key \in DOMAIN mapping /\ mapping[text[i].key] = text[i].value

\* The step answers a confirm or an unconfirm request with success.
OverrideStep ==
    \E name \in RequestDomains \ {Undefined} : ConfirmStep(name) \/ UnconfirmStep(name)

\* C20: a step that changes the override store is an answered confirm or
\* unconfirm, or the restart of the process, and a step that changes
\* confirmed.json is an answered confirm or unconfirm; so no step of a refresh
\* (completing or failing), no read and no firing of the poll timer changes
\* either.  An answered confirm or unconfirm leaves the file holding the store
\* it made, and after a restart the store is the mapping the file holds.
C20_OverridesChangeExplicitly ==
    [][/\ confirmedDomains' # confirmedDomains => (OverrideStep \/ Restart)
       /\ confirmedFile' # confirmedFile => OverrideStep
       /\ OverrideStep => /\ confirmedFile' # None
                          /\ SameMembers(confirmedDomains', confirmedFile'[1])
       /\ Restart => IF confirmedFile = None
                     THEN confirmedDomains' = EmptyObject
                     ELSE SameMembers(confirmedDomains', confirmedFile[1])]_vars

\* C20 witness: the process was restarted while a refresh ran, and a refresh
\* started by the new process has completed: its snapshot is live, and the
\* store and the file hold a confirmed name.
C20_Witness ==
    /\ \E r \in Callers : pc[r] = "gone"
    /\ cachedData # None
    /\ \E k \in DOMAIN runs : runs[k].state = "lost" /\ cachedData[1].run > k
    /\ NAME_A \in DOMAIN confirmedDomains
    /\ confirmedFile # None
    /\ SameMembers(confirmedDomains, confirmedFile[1])

(***************************************************************************)
(* The overrides over an account whose names recur.                        *)
(***************************************************************************)
\* The domains of a snapshot, site after site.
SnapshotDomains(data) ==
    IF data = None THEN <<>>
    ELSE Flatten([k \in DOMAIN data[1].sites |-> data[1].sites[k].domains])

\* The domains of the body of a response that carries a snapshot.
BodyDomains(resp) ==
    Flatten([k \in DOMAIN resp[1].data[1].sites |-> resp[1].data[1].sites[k].domains])

\* C21: after every step, each domain that the live snapshot classifies issue
\* and whose name the override store holds is projected confirmed under its own
\* id, in whichever install it is and whatever its id; in particular after a
\* refresh that brought a name back under another id than the one it was
\* projected confirmed with; and a reader is served that projection.
C21_OverridesKeyedByName ==
    [][LET live == SnapshotDomains(cachedData')
           shown == ProjectedDomains(cachedData', confirmedDomains')
           before == ProjectedDomains(cachedData, confirmedDomains)
       IN  /\ \A k \in DOMAIN live :
                 (live[k].status = "issue" /\ live[k].name \in DOMAIN confirmedDomains')
                    => /\ shown[k].status = "confirmed"
                       /\ shown[k].id = live[k].id
           /\ cachedData' # cachedData =>
                 \A j \in DOMAIN before, k \in DOMAIN live :
                    (/\ before[j].status = "confirmed"
                     /\ live[k].name = before[j].name
                     /\ live[k].id # before[j].id
                     /\ live[k].status = "issue")
                        => shown[k].status = "confirmed"
           /\ (ReadStep /\ cachedData # None) => BodyDomains(response') = shown]_vars

\* C21 witness: a reader is served the snapshot of a second refresh in which
\* the confirmed name is attached to two installs, under the id of its second
\* creation in the one and under another id in the other, and both are served
\* confirmed.
C21_Witness ==
    /\ Serving
    /\ cachedData # None
    /\ cachedData[1].run >= 2
    /\ \E j, k \in DOMAIN ServedDomains :
          /\ ServedDomains[j].name = NAME_A
          /\ ServedDomains[k].name = NAME_A
          /\ ServedDomains[j].id = 32
          /\ ServedDomains[k].id = 41
          /\ ServedDomains[j].status = "confirmed"
          /\ ServedDomains[k].status = "confirmed"

(***************************************************************************)
(* The Override Store on a disk that can fail.                             *)
(***************************************************************************)
\* The step answers a confirm or an unconfirm request that named a domain.
AnswersOverrideRequest ==
    /\ response = None
    /\ response' # None
    /\ response'[1].route \in {"POST /api/confirm", "DELETE /api/confirm"}
    /\ Truthy(response'[1].domain)

\* The file holds the mapping.
Persisted(mapping, file) ==
    /\ file # None
    /\ ~ParseFails(file)
    /\ SameMembers(mapping, file[1])

\* C22: a confirm or an unconfirm whose write of confirmed.json throws is not
\* answered with success, and a confirm or an unconfirm that is answered with
\* success leaves the file holding the mapping.
C22_WriteFailureSurfaced ==
    [][/\ \A domain \in DurableRequestDomains, left \in FailedWriteLeaves(confirmedFile) :
             /\ (\E t \in DurableTimes : PostConfirmWriteFails(domain, t, left))
                   => response'[1].code >= 400
             /\ DeleteConfirmWriteFails(domain, left) => response'[1].code >= 400
       /\ (AnswersOverrideRequest /\ response'[1].code = 200)
             => Persisted(confirmedDomains', confirmedFile')]_vars

\* C22 witness: a confirm is being answered 500 after its write failed: the
\* name is in the mapping in memory and the file does not hold it.
C22_Witness ==
    /\ response = Some(Response("POST /api/confirm", 500, NAME_A, None))
    /\ NAME_A \in DOMAIN confirmedDomains
    /\ ~Persisted(confirmedDomains, confirmedFile)

\* The step answers a confirm request.
ConfirmIssued ==
    /\ response = None
    /\ response' # None
    /\ response'[1].route = "POST /api/confirm"

\* C23: a start of the process at which confirmed.json is missing, cannot be
\* read or cannot be parsed leaves the override store empty and the process
\* taking requests; while the store is empty no served domain is confirmed;
\* and an empty store gets an entry only by a confirm request, or by a later
\* start of the process that reads the file.
C23_ReadFailureStartsEmpty ==
    [][/\ (Restart /\ (confirmedFile = None \/ ParseFails(confirmedFile)))
             => (confirmedDomains' = EmptyObject /\ response' = None)
       /\ RestartReadFails
             => (confirmedDomains' = EmptyObject /\ response' = None)
       /\ confirmedDomains = EmptyObject
             => \A k \in DOMAIN ServedDomains : ServedDomains[k].status # "confirmed"
       /\ (confirmedDomains = EmptyObject /\ confirmedDomains' # EmptyObject)
             => (ConfirmIssued \/ Restart)]_vars

\* C23 witness: the process started without being able to load the file, which
\* holds a confirmed name; the override store is empty, and a reader is served
\* that name with the classifier's verdict issue.
C23_Witness ==
    /\ loadFailed
    /\ confirmedDomains = EmptyObject
    /\ confirmedFile # None
    /\ ~ParseFails(confirmedFile)
    /\ \E i \in DOMAIN confirmedFile[1] : confirmedFile[1][i].key = NAME_A
    /\ Serving
    /\ \E k \in DOMAIN ServedDomains :
          ServedDomains[k].name = NAME_A /\ ServedDomains[k].status = "issue"

(***************************************************************************)
(* The DNS lookup inside the refresh.                                      *)
(***************************************************************************)
\* The records a resolver call contributes to the DNS result.
RecordsOf(outcome) ==
    IF outcome.ok THEN outcome.records ELSE <<>>

\* The DNS result the refresh of caller r holds for the domain id after the
\* step: in its locals while it runs, in the snapshot once it has completed.
ResultHeld(r, id, locals, data) ==
    IF id \in DOMAIN locals[r].dnsResults
    THEN Some(locals[r].dnsResults[id])
    ELSE LET domains == SnapshotDomains(data)
         IN  IF \E j \in DOMAIN domains : domains[j].id = id
             THEN domains[CHOOSE j \in DOMAIN domains : domains[j].id = id].dns
             ELSE None

\* C25: in the step in which a lookup settles, whatever the outcomes of its two
\* resolver calls, the refresh that issued it goes on (it runs on or completes
\* with a snapshot, and its caller gets no failure), and the result it holds
\* for the domain has for each record type the records of a call that
\* succeeded and the empty list for a call that failed.
C25_LookupNeverFails ==
    [][\A r \in LookupCallers : \A k \in DOMAIN loc[r].slots :
          \A resolve4 \in ClResolve4Outcomes, resolveCname \in ClResolveCnameOutcomes :
             DnsLookupSettledWith(r, k, resolve4, resolveCname) =>
                LET id == loc[r].allCustomDomains[loc[r].i + k].id
                    held == ResultHeld(r, id, loc', cachedData')
                IN  /\ pc'[r] \in {"dnsLookup", "returned"}
                    /\ result'[r].kind # "error"
                    /\ runs'[myRun[r]].state \in {"running", "done"}
                    /\ held # None
                    /\ held[1].ips = RecordsOf(resolve4)
                    /\ held[1].cnames = RecordsOf(resolveCname)]_vars

\* C25 witness: a refresh has completed with a snapshot in which one domain
\* has A-records and no CNAME and another has a CNAME and no A-record.
C25_Witness ==
    /\ cachedData # None
    /\ \E r \in LookupCallers : pc[r] = "returned" /\ runs[myRun[r]].state = "done"
    /\ \E j, k \in DOMAIN LiveDomains :
          /\ LiveDomains[j].dns # None
          /\ LiveDomains[k].dns # None
          /\ LiveDomains[j].dns[1].ips = <<IP_OTHER>>
          /\ LiveDomains[j].dns[1].cnames = <<>>
          /\ LiveDomains[k].dns[1].ips = <<>>
          /\ LiveDomains[k].dns[1].cnames = <<CNAME_OTHER>>

\* The DNS results a refresh holds in its locals and the live snapshot holds.
ResultsHeld ==
    UNION {Range(loc[r].dnsResults) : r \in LookupCallers}
        \cup {LiveDomains[k].dns[1] : k \in {j \in DOMAIN LiveDomains : LiveDomains[j].dns # None}}

\* C26: every DNS result a lookup produced, whatever the outcomes of its two
\* resolver calls (failure, success without record, success with records), has
\* resolved true exactly when its A-record list or its CNAME list is not empty.
C26_ResolvedIffRecordFound ==
    \A res \in ResultsHeld :
        res.resolved <=> (res.ips # <<>> \/ res.cnames # <<>>)

(***************************************************************************)
(* The domain fetch inside the refresh.                                    *)
(***************************************************************************)
\* The ids of a list of domains, in order.
IdsOf(domains) ==
    [j \in DOMAIN domains |-> domains[j].id]

\* The domains the refresh of caller r holds for the install after the step,
\* by their ids: in the slot of its fetch, in installDomains, or in the site of
\* the snapshot once the refresh has completed.
DomainsHeld(r, installId, locals, data) ==
    LET slots == locals[r].slots
        entries == locals[r].installDomains
    IN  IF \E k \in DOMAIN slots : slots[k] # None /\ "install" \in DOMAIN slots[k][1]
                                                  /\ slots[k][1].install.id = installId
        THEN Some(IdsOf(slots[CHOOSE k \in DOMAIN slots :
                                  /\ slots[k] # None
                                  /\ "install" \in DOMAIN slots[k][1]
                                  /\ slots[k][1].install.id = installId][1].domains))
        ELSE IF \E k \in DOMAIN entries : entries[k].install.id = installId
        THEN Some(IdsOf(entries[CHOOSE k \in DOMAIN entries :
                                    entries[k].install.id = installId].domains))
        ELSE IF data # None /\ \E s \in DOMAIN data[1].sites : data[1].sites[s].id = installId
        THEN Some(IdsOf(data[1].sites[CHOOSE s \in DOMAIN data[1].sites :
                                          data[1].sites[s].id = installId].domains))
        ELSE None

\* The verdicts the classifier gives.
Verdicts ==
    {"system", "good", "issue", "pending", "unknown"}

\* C27: in the step in which the domain fetch of an install settles, failed or
\* not, the refresh goes on (it runs on or completes with a snapshot, and its
\* caller gets no failure) and holds for that install the domains listed, none
\* when the fetch failed; and in the step in which a refresh completes, the
\* live snapshot is replaced by one that has a site for every install listed,
\* in order, the installs without domains included, and in every site each
\* domain carries a verdict of the classifier and, when custom, its DNS result.
C27_FetchFailureSwallowed ==
    [][\A r \in Callers :
          /\ \A k \in DOMAIN loc[r].slots :
                LET installId == loc[r].installs[loc[r].i + k].id IN
                \A outcome \in FetchOutcomes(installId) :
                   FetchDomainsSettledWith(r, k, outcome) =>
                      /\ pc'[r] \in {"fetchDomains", "dnsLookup", "returned"}
                      /\ result'[r].kind # "error"
                      /\ runs'[myRun[r]].state \in {"running", "done"}
                      /\ DomainsHeld(r, installId, loc', cachedData')
                            = Some(IdsOf(IF outcome.ok THEN outcome.records ELSE <<>>))
          /\ (pc[r] \in {"fetchDomains", "dnsLookup"} /\ pc'[r] = "returned") =>
                /\ runs'[myRun[r]].state = "done"
                /\ cachedData' # None
                /\ cachedData'[1].run = myRun[r]
                /\ result'[r] = [kind |-> "data", ref |-> myRun[r]]
                /\ LET sites == cachedData'[1].sites
                   IN  /\ IdsOf(sites) = IdsOf(loc[r].installs)
                       /\ \A s \in DOMAIN sites : \A j \in DOMAIN sites[s].domains :
                             LET d == sites[s].domains[j]
                             IN  /\ d.status \in Verdicts
                                 /\ ~HasInternalSuffix(d.name) => d.dns # None]_vars

\* C27 witness: a refresh over two installs has completed and its snapshot is
\* live: the first install, whose listing is never empty, has a site without
\* domains, and the second has its domain, classified with its DNS result.
C27_Witness ==
    /\ cachedData # None
    /\ runs[cachedData[1].run].state = "done"
    /\ Len(cachedData[1].sites) = 2
    /\ cachedData[1].sites[1].id = 1
    /\ \A listing \in DomainListings(1) : listing # <<>>
    /\ cachedData[1].sites[1].domains = <<>>
    /\ Len(cachedData[1].sites[2].domains) = 1
    /\ cachedData[1].sites[2].domains[1].name = NAME_B
    /\ cachedData[1].sites[2].domains[1].dns # None
    /\ cachedData[1].sites[2].domains[1].status = "good"

(***************************************************************************)
(* Reads, confirms and refreshes interleaved.                              *)
(***************************************************************************)
\* The override a served domain carries is the one the store holds for it.
CarriesOverrideOf(served, live) ==
    /\ served.name = live.name
    /\ served.id = live.id
    /\ served.originalStatus = "issue"
    /\ served.originalDetail = live.detail
    /\ served.confirmedAt = confirmedDomains[live.name].confirmedAt

\* C28: whatever confirms, unconfirms, refresh steps and restarts preceded a
\* read of GET /api/data, the body being served is the projection of the live
\* snapshot of that moment under the override store of that moment: it has the
\* live snapshot's domains in order, a domain is served confirmed iff the live
\* snapshot classifies it issue and the store holds its name, every other
\* domain is served as the live snapshot holds it, and the served issue count
\* is that of the served domains; without a live snapshot the body is empty.
C28_ServedIsProjectionAtRead ==
    Serving =>
       /\ cachedData = None => Served = EmptyData
       /\ cachedData # None =>
             /\ DOMAIN ServedDomains = DOMAIN LiveDomains
             /\ \A k \in DOMAIN ServedDomains :
                   /\ ServedDomains[k].status = "confirmed"
                         <=> /\ LiveDomains[k].status = "issue"
                             /\ LiveDomains[k].name \in DOMAIN confirmedDomains
                   /\ ServedDomains[k].status = "confirmed"
                         => CarriesOverrideOf(ServedDomains[k], LiveDomains[k])
                   /\ ServedDomains[k].status # "confirmed"
                         => ServedDomains[k] = LiveDomains[k]
             /\ Served.stats.issues = CountCustomWith(ServedDomains, "issue")

\* C28 witness: a read is being served while a later refresh is running on
\* the snapshot of an earlier one; one domain classified issue is served
\* confirmed, its name being in the store, and another domain classified issue
\* is served issue, its name not being in the store.
C28_Witness ==
    /\ Serving
    /\ cachedData # None
    /\ isRefreshing
    /\ \E r \in Callers : pc[r] \in {"fetchDomains", "dnsLookup"}
                            /\ cachedData[1].run < myRun[r]
    /\ \E j, k \in DOMAIN ServedDomains :
          /\ LiveDomains[j].status = "issue"
          /\ LiveDomains[j].name \in DOMAIN confirmedDomains
          /\ ServedDomains[j].status = "confirmed"
          /\ LiveDomains[k].status = "issue"
          /\ LiveDomains[k].name \notin DOMAIN confirmedDomains
          /\ ServedDomains[k].status = "issue"

(***************************************************************************)
(* The waiter of a refresh that fails.                                     *)
(***************************************************************************)
\* C29: a caller that called refreshData while a pipeline execution was in
\* flight, and is through with its call after that execution failed, holds a
\* failure: it has not been returned the snapshot of an earlier execution,
\* nor null.
C29_WaiterObservesFailure ==
    \A r \in Callers : \A k \in inFlightAtCall[r] :
        (pc[r] \in {"returned", "threw"} /\ runs[k].state = "failed")
            => result[r] = Threw

(***************************************************************************)
(* The refresh protocol under requests that keep arriving: a caller whose  *)
(* call is over calls again, as the next request does.                     *)
(***************************************************************************)
\* The callers that call refreshData again and again: one finds a refresh in
\* flight and waits, the requests of the other keep arriving.
LiveCallers ==
    {1, 2}

\* The pipeline executions something still refers to once caller r has left.
RunsKept(r) ==
    ({myRun[q] : q \in Callers \ {r}}
        \cup UNION {inFlightAtCall[q] : q \in Callers \ {r}}
        \cup {result[q].ref : q \in Callers \ {r}}
        \cup {Ref(cachedData)}) \ {0}

\* The place of execution k among the executions kept; 0 stands for none.
Renumbered(k, kept) ==
    IF k = 0 THEN 0 ELSE Cardinality({j \in kept : j <= k})

\* The request of caller r has been answered and the next request arrives
\* under its name: refreshData's promise has settled, nothing of the call is
\* left, and the executions nothing refers to any more are forgotten.
NextRequest(r) ==
    /\ pc[r] \in {"returned", "threw"}
    /\ LET kept == RunsKept(r)
       IN  /\ pc' = [pc EXCEPT ![r] = "idle"]
           /\ runs' = [n \in 1..Cardinality(kept) |->
                          runs[CHOOSE k \in kept : Renumbered(k, kept) = n]]
           /\ myRun' = [q \in Callers |->
                          IF q = r THEN 0 ELSE Renumbered(myRun[q], kept)]
           /\ inFlightAtCall' = [q \in Callers |->
                                   IF q = r THEN {}
                                   ELSE {Renumbered(k, kept) : k \in inFlightAtCall[q]}]
           /\ result' = [q \in Callers |->
                           IF q = r THEN NoResult
                           ELSE [result[q] EXCEPT !.ref = Renumbered(@, kept)]]
           /\ cachedData' = IF cachedData = None THEN None
                            ELSE Some([cachedData[1] EXCEPT !.run = Renumbered(@, kept)])
    /\ UNCHANGED <<isRefreshing, refreshProgress, loc, cl, storeVars>>

LiveNext ==
    \E r \in LiveCallers :
        \/ StartRefresh(r)
        \/ WaitForRefresh(r)
        \/ PollRefresh(r)
        \/ InstallsFulfilled(r)
        \/ InstallsRejected(r)
        \/ FetchDomainsSettled(r)
        \/ DnsLookupSettled(r)
        \/ NextRequest(r)

\* Every pipeline execution terminates: each of its API calls and DNS lookups
\* settles.
EveryRunTerminates ==
    \A r \in LiveCallers : Executing(r) ~> ~Executing(r)

\* The interval timer of a waiting caller keeps firing, so a flag that stays
\* cleared is found cleared. The timer fires at its own instants, every
\* 500 ms: nothing makes one of them fall between two executions, which is why
\* the fairness of the poll is weak. Requests arrive as the clients please.
PollTimerFires ==
    \A r \in LiveCallers : WF_vars(PollRefresh(r))

LiveSpec ==
    Init /\ [][LiveNext]_vars /\ PollTimerFires /\ EveryRunTerminates

\* C30: a caller that waits on a refresh in flight eventually returns, also
\* when further callers keep calling and start new executions between its
\* polls; every execution terminates and the poll timer keeps firing.
C30_WaiterEventuallyReturns ==
    \A r \in LiveCallers : (pc[r] = "waiting") ~> (pc[r] = "returned")

(***************************************************************************)
(* The refresh under collaborators that answer: the install listing is     *)
(* fulfilled or rejected, and every domain listing and DNS lookup that is  *)
(* outstanding settles.                                                    *)
(***************************************************************************)
\* The callers of refreshData: the start-up call and a refresh request.
FairCallers ==
    {1, 2}

FairNext ==
    \E r \in FairCallers :
        \/ StartRefresh(r)
        \/ WaitForRefresh(r)
        \/ PollRefresh(r)
        \/ InstallsFulfilled(r)
        \/ InstallsRejected(r)
        \/ FetchDomainsSettled(r)
        \/ DnsLookupSettled(r)

\* Every collaborator call returns or fails: the promise a pipeline awaits is
\* settled, and its continuation runs. Nothing is assumed of the callers and
\* of the poll timer.
CollaboratorsSettle ==
    \A r \in FairCallers :
        /\ WF_vars(InstallsFulfilled(r) \/ InstallsRejected(r))
        /\ WF_vars(FetchDomainsSettled(r))
        /\ WF_vars(DnsLookupSettled(r))

FairSpec ==
    Init /\ [][FairNext]_vars /\ CollaboratorsSettle

\* The pipeline of caller r has finished with the flag cleared: it replaced
\* the snapshot by the one it returned, or the install listing was rejected.
FinishedAndCleared(r) ==
    /\ ~isRefreshing
    /\ myRun[r] # 0
    /\ \/ /\ pc[r] = "returned"
          /\ runs[myRun[r]].state = "done"
          /\ cachedData # None
          /\ cachedData[1].run = myRun[r]
          /\ result[r] = Returned(cachedData)
       \/ /\ pc[r] = "threw"
          /\ runs[myRun[r]].state = "failed"
          /\ result[r] = Threw

\* C35: every refresh that starts eventually finishes, by replacing the
\* snapshot or at the rejection of the install listing, and the flag is then
\* false, provided every collaborator call returns or fails.
C35_RefreshEventuallyFinishes ==
    \A r \in FairCallers : Executing(r) ~> FinishedAndCleared(r)

\* A later request started a pipeline of its own after the first had
\* finished, and that pipeline finished too.
C35_Witness ==
    /\ myRun[1] = 1
    /\ myRun[2] = 2
    /\ runs[1].state = "failed"
    /\ FinishedAndCleared(1)
    /\ FinishedAndCleared(2)
    /\ pc[2] = "returned"

(***************************************************************************)
(* The stages of the refresh over the third account.                       *)
(***************************************************************************)
\* What fetchDomains gives for each of the installs, in their order.
BatchListed(installs) ==
    [j \in DOMAIN installs |->
        IF BatchFetchOutcome(installs[j].id).ok
        THEN BatchFetchOutcome(installs[j].id).records ELSE <<>>]

\* The names of all the domains fetched for the installs.
BatchNamesListed(installs) ==
    UNION {{d.name : d \in Range(BatchListed(installs)[j])} : j \in DOMAIN installs}

\* The domains of the snapshot that are not system domains.
CustomOfSnapshot(data) ==
    {d \in Range(SnapshotDomains(data)) : ~HasInternalSuffix(d.name)}

\* C31: while domain fetches are outstanding no DNS lookup has started and no
\* index exists; when DNS lookups have started, the domains of every install
\* have been fetched and the index holds the names of all of them, system and
\* custom; the index, the fetched domains and the list of lookups stay as
\* they are through the DNS stage; and the snapshot, which holds the
\* classifier's verdicts, is assigned only by the step in which the last DNS
\* lookup of the last batch settles, every custom domain carrying its DNS
\* result and a domain whose only tie to the provider is a CNAME to a name of
\* the last install fetched being good exactly when the index holds that name.
C31_StagesAreBarriers ==
    [][/\ cachedData' # cachedData => \E q \in BatchCallers : pc'[q] # pc[q]
       /\ \A r \in BatchCallers :
           LET l == loc[r]
           IN  /\ pc[r] = "fetchDomains" =>
                     /\ l.dnsResults = <<>>
                     /\ l.allCustomDomains = <<>>
                     /\ l.allDomainNames = {}
               /\ pc[r] = "dnsLookup" =>
                     /\ Len(l.installDomains) = Len(l.installs)
                     /\ \A j \in DOMAIN l.installs :
                           /\ l.installDomains[j].install = l.installs[j]
                           /\ l.installDomains[j].domains = BatchListed(l.installs)[j]
                     /\ l.allDomainNames = BatchNamesListed(l.installs)
               /\ (pc[r] = "dnsLookup" /\ pc'[r] = "dnsLookup") =>
                     /\ loc'[r].allDomainNames = l.allDomainNames
                     /\ loc'[r].installDomains = l.installDomains
                     /\ loc'[r].allCustomDomains = l.allCustomDomains
               /\ (cachedData' # cachedData /\ pc'[r] # pc[r]) =>
                     /\ pc[r] = "dnsLookup"
                     /\ pc'[r] = "returned"
                     /\ Cardinality(Outstanding(l.slots)) = 1
                     /\ l.i + Len(l.slots) = Len(l.allCustomDomains)
                     /\ Cardinality(DOMAIN l.dnsResults) = Len(l.allCustomDomains) - 1
                     /\ \A d \in CustomOfSnapshot(cachedData') : d.dns # None
                     /\ \A d \in CustomOfSnapshot(cachedData') :
                           (/\ BatchResolveCname(d.name, myRun[r]).ok
                            /\ ~IpHasPrefix(BatchResolve4(d.name, myRun[r]).records[1])) =>
                              (d.status = "good" <=> BatchName(31) \in l.allDomainNames)]_vars

\* C31 witness: the refresh over eleven installs is in its second batch of DNS
\* lookups, its index holding the system domain of the first install and a
\* domain of the eleventh, which was fetched in the second batch of fetches.
C31_Witness ==
    \E r \in BatchCallers :
        /\ pc[r] = "dnsLookup"
        /\ Len(loc[r].installs) = 11
        /\ loc[r].i = DNS_CONCURRENCY
        /\ Outstanding(loc[r].slots) # {}
        /\ NAME_SYS \in loc[r].allDomainNames
        /\ BatchName(32) \in loc[r].allDomainNames

\* C32: at every point of a refresh at most 10 domain fetches are outstanding
\* and at most 30 DNS lookups are outstanding, and a caller that runs no
\* stage has no task outstanding.
C32_BoundedConcurrency ==
    \A r \in Callers :
        /\ pc[r] = "fetchDomains" => Cardinality(Outstanding(loc[r].slots)) <= 10
        /\ pc[r] = "dnsLookup" => Cardinality(Outstanding(loc[r].slots)) <= 30
        /\ pc[r] \notin {"fetchDomains", "dnsLookup"} => loc[r].slots = <<>>

\* C32 witness: of the thirty-two custom domains of eleven installs, thirty
\* are being looked up and two wait for the next batch.
C32_Witness ==
    \E r \in BatchCallers :
        /\ pc[r] = "dnsLookup"
        /\ Len(loc[r].installs) = 11
        /\ Len(loc[r].allCustomDomains) = 32
        /\ loc[r].i = 0
        /\ Cardinality(Outstanding(loc[r].slots)) = 30

\* The DNS result of the lookup of a name in a refresh cycle.
BatchAnswer(name, cycle) ==
    dnsLookup(BatchResolve4(name, cycle), BatchResolveCname(name, cycle))

\* C33: during the DNS stage of a refresh only custom domains are looked up,
\* and every result held is held for a custom domain and is the result of the
\* lookup of that domain's name in this cycle; in the live snapshot every
\* custom domain carries the result of the lookup of its own name in the cycle
\* that produced the snapshot and the verdict the classifier gives with that
\* result, and every system domain carries no DNS result.
C33_OwnLookupResult ==
    /\ \A r \in BatchCallers :
          pc[r] = "dnsLookup" =>
             /\ \A k \in DOMAIN loc[r].allCustomDomains :
                   ~HasInternalSuffix(loc[r].allCustomDomains[k].name)
             /\ \A id \in DOMAIN loc[r].dnsResults :
                   \E k \in DOMAIN loc[r].allCustomDomains :
                      /\ loc[r].allCustomDomains[k].id = id
                      /\ loc[r].dnsResults[id]
                            = BatchAnswer(loc[r].allCustomDomains[k].name, myRun[r])
    /\ cachedData # None =>
          \A s \in DOMAIN cachedData[1].sites :
             LET site == cachedData[1].sites[s] IN
             \A j \in DOMAIN site.domains :
                LET d == site.domains[j] IN
                IF HasInternalSuffix(d.name)
                THEN d.dns = None /\ d.status = "system"
                ELSE /\ d.dns = Some(BatchAnswer(d.name, cachedData[1].run))
                     /\ Verdict(d.status, d.detail)
                           = determineDomainStatus(BatchDomain(BatchNumber(d.name)), d.dns,
                                                   site.cname,
                                                   BatchNamesListed(cachedData[1].sites))

\* C33 witness: the snapshot of the second refresh is live; a domain that had
\* an A-record at the provider during the first refresh and has no record now
\* carries the result of the second lookup and is classified issue, and the
\* system domain carries no result.
C33_Witness ==
    /\ cachedData # None
    /\ cachedData[1].run = 2
    /\ BatchAnswer(BatchName(4), 1).resolved
    /\ \E j \in DOMAIN cachedData[1].sites[1].domains :
          LET d == cachedData[1].sites[1].domains[j]
          IN  /\ d.name = BatchName(4)
              /\ d.dns = Some(BatchAnswer(BatchName(4), 2))
              /\ ~d.dns[1].resolved
              /\ d.status = "issue"
              /\ d.detail = DETAIL_NOT_RESOLVING
    /\ \E j \in DOMAIN cachedData[1].sites[1].domains :
          LET d == cachedData[1].sites[1].domains[j]
          IN  d.name = NAME_SYS /\ d.dns = None

\* The snapshot of a refresh cycle over the installs whose tasks complete in
\* the order in which they were started.
BatchInOrder(installs, cycle) ==
    LET listed == BatchListed(installs)
        installDomains == [j \in DOMAIN installs |->
                              [install |-> installs[j], domains |-> listed[j]]]
        custom == BuildAllCustomDomains(installDomains)
        ids == {custom[k].id : k \in DOMAIN custom}
        nameOf == [id \in ids |-> custom[CHOOSE k \in DOMAIN custom : custom[k].id = id].name]
    IN  BuildSnapshot([installs |-> installs,
                       installDomains |-> installDomains,
                       allDomainNames |-> BatchNamesListed(installs),
                       dnsResults |-> [id \in ids |-> BatchAnswer(nameOf[id], cycle)]],
                      cycle)

\* The ids of the custom domains whose lookup has settled in the refresh with
\* locals l: those of the batches completed and of the settled slots.
LookedUp(l) ==
    {l.allCustomDomains[k].id : k \in 1..l.i}
        \cup {l.allCustomDomains[l.i + k].id : k \in DOMAIN l.slots \ Outstanding(l.slots)}

\* C34: whatever the order in which the domain fetches and the DNS lookups of
\* a refresh complete, what the refresh has accumulated depends only on the
\* set of tasks completed: the fetched lists of the batches completed are
\* those of the installs in their order, the results held are those of the
\* names looked up; and the snapshot of a completed refresh is the one the
\* same API responses and DNS answers give when every task completes in the
\* order in which it was started: the same installs in the same order, the
\* same domains with the same verdicts and reasons, the same statistics.
C34_CompletionOrderIrrelevant ==
    /\ \A r \in BatchCallers :
          LET l == loc[r] IN
          /\ pc[r] = "fetchDomains" =>
                l.results = [j \in 1..l.i |-> [install |-> l.installs[j],
                                               domains |-> BatchListed(l.installs)[j]]]
          /\ pc[r] = "dnsLookup" =>
                /\ DOMAIN l.dnsResults = LookedUp(l)
                /\ \A k \in DOMAIN l.allCustomDomains :
                      l.allCustomDomains[k].id \in DOMAIN l.dnsResults =>
                         l.dnsResults[l.allCustomDomains[k].id]
                            = BatchAnswer(l.allCustomDomains[k].name, myRun[r])
    /\ cachedData # None =>
          \E installs \in BatchInstallListings :
              cachedData[1] = BatchInOrder(installs, cachedData[1].run)

\* C34 witness: the snapshot of the first refresh, over eleven installs, is
\* live, and the second refresh is in its last batch of DNS lookups, of which
\* the second has settled before the first.
C34_Witness ==
    /\ cachedData # None
    /\ cachedData[1].run = 1
    /\ Len(cachedData[1].sites) = 11
    /\ pc[2] = "dnsLookup"
    /\ loc[2].i = DNS_CONCURRENCY
    /\ Outstanding(loc[2].slots) = {1}
    /\ Len(loc[2].slots) = 2

(***************************************************************************)
(* The override store in memory when the write of confirmed.json throws.   *)
(***************************************************************************)
\* The step is a confirm or an unconfirm whose write of the file throws.
OverrideWriteFails ==
    \E domain \in DurableRequestDomains, left \in FailedWriteLeaves(confirmedFile) :
        \/ \E t \in DurableTimes : PostConfirmWriteFails(domain, t, left)
        \/ DeleteConfirmWriteFails(domain, left)

\* C36: a confirm or an unconfirm whose write of confirmed.json throws leaves
\* the override store in memory as it was before the request.
C36_FailedWriteLeavesStore ==
    [][OverrideWriteFails => confirmedDomains' = confirmedDomains]_vars

(***************************************************************************)
(* The progress report between refreshes.                                  *)
(***************************************************************************)
\* GET /api/status: the body of the answer, read off the module's variables.
GetStatus ==
    [refreshing |-> isRefreshing, progress |-> refreshProgress, hasData |-> cachedData # None]

\* C37: whenever the status reports that no refresh is in progress, the
\* progress message it reports is empty, also after a refresh that failed.
C37_IdleProgressEmpty ==
    ~GetStatus.refreshing => GetStatus.progress = NoProgress

(***************************************************************************)
(* The static generator (generate-dashboard.js): its DNS fingerprint, its  *)
(* classifier and the site data and statistics its main builds, set beside *)
(* the server's.                                                           *)
(***************************************************************************)
\* dnsPointsToWPE of the generator. allDomainNames is a Set, which is truthy.
generatorDnsPointsToWPE(dnsResult, installCname, allDomainNames) ==
    IF dnsResult = None THEN FALSE
    ELSE IF ~dnsResult[1].resolved THEN FALSE
    ELSE LET cnames == dnsResult[1].cnames
             ips == dnsResult[1].ips
         IN  IF /\ Len(cnames) > 0
                /\ \E i \in DOMAIN cnames :
                      \/ \E k \in DOMAIN WPE_CNAME_SUFFIXES :
                            EndsWith(cnames[i], WPE_CNAME_SUFFIXES[k])
                      \/ cnames[i] = installCname
             THEN TRUE
             ELSE IF Len(cnames) > 0 /\ \E i \in DOMAIN cnames : cnames[i] \in allDomainNames
             THEN TRUE
             ELSE IF /\ Len(ips) > 0
                     /\ \E i \in DOMAIN ips :
                           \E k \in DOMAIN WPE_IP_PREFIXES :
                               StartsWith(ips[i], WPE_IP_PREFIXES[k])
             THEN TRUE
             ELSE FALSE

\* A mutation of the generator's determineDomainStatus: an ACTIVE domain whose
\* name does not resolve is trusted to the API.
generatorDetermineDomainStatus_UnresolvedTrusted(domain, dnsResult, installCname, allDomainNames) ==
    LET isSystem == \/ EndsWith(domain.name, SUFFIX_WPENGINEPOWERED)
                    \/ EndsWith(domain.name, SUFFIX_WPENGINE)
    IN  IF isSystem THEN [status |-> "system", detail |-> DETAIL_SYSTEM]
        ELSE
        LET networkStatus == toUpperCase(domain.status)
            expectedCname == OrElse(domain.cname, Null)
            expectedARecords == IF domain.a_records = None THEN <<>> ELSE domain.a_records[1]
            dnsMatches ==
                IF dnsResult # None
                THEN generatorDnsPointsToWPE(dnsResult, installCname, allDomainNames)
                ELSE FALSE
            generatorDnsMatchesExpected ==
                IF dnsResult # None /\ Len(dnsResult[1].ips) > 0 /\ Len(expectedARecords) > 0
                THEN \E i \in DOMAIN dnsResult[1].ips :
                        \E j \in DOMAIN expectedARecords :
                            expectedARecords[j] = dnsResult[1].ips[i]
                ELSE FALSE
            generatorCnameMatchesExpected ==
                IF dnsResult # None /\ Len(dnsResult[1].cnames) > 0 /\ Truthy(expectedCname)
                THEN \E i \in DOMAIN dnsResult[1].cnames : dnsResult[1].cnames[i] = expectedCname
                ELSE FALSE
        IN  IF networkStatus = STR_ACTIVE
            THEN IF dnsMatches \/ generatorDnsMatchesExpected \/ generatorCnameMatchesExpected
                     THEN [status |-> "good", detail |-> DETAIL_ACTIVE_POINTED]
                 ELSE IF dnsResult # None /\ dnsResult[1].resolved
                     THEN [status |-> "issue", detail |-> DETAIL_NOT_POINTED]
                 ELSE [status |-> "good", detail |-> DETAIL_ACTIVE_API]
            ELSE IF networkStatus = STR_PENDING
                THEN [status |-> "pending", detail |-> DETAIL_PENDING]
            ELSE IF networkStatus = STR_DELETED
                THEN [status |-> "issue", detail |-> DETAIL_DELETED]
            ELSE IF ~Truthy(networkStatus)
                THEN IF dnsMatches
                         THEN [status |-> "good", detail |-> DETAIL_LEGACY]
                     ELSE IF dnsResult # None /\ dnsResult[1].resolved
                         THEN [status |-> "issue", detail |-> DETAIL_NOT_POINTED]
                     ELSE IF dnsResult # None /\ ~dnsResult[1].resolved
                         THEN [status |-> "issue", detail |-> DETAIL_NOT_RESOLVING]
                     ELSE [status |-> "unknown", detail |-> DETAIL_NO_DATA]
            ELSE [status |-> "unknown", detail |-> OrElse(networkStatus, DETAIL_UNKNOWN)]
\* determineDomainStatus of the generator. The local sslStatus is computed
\* and not read.
generatorDetermineDomainStatus(domain, dnsResult, installCname, allDomainNames) ==
    LET isSystem == \/ EndsWith(domain.name, SUFFIX_WPENGINEPOWERED)
                    \/ EndsWith(domain.name, SUFFIX_WPENGINE)
    IN  IF isSystem THEN [status |-> "system", detail |-> DETAIL_SYSTEM]
        ELSE
        LET networkStatus == toUpperCase(domain.status)
            expectedCname == OrElse(domain.cname, Null)
            expectedARecords == IF domain.a_records = None THEN <<>> ELSE domain.a_records[1]
            dnsMatches ==
                IF dnsResult # None
                THEN generatorDnsPointsToWPE(dnsResult, installCname, allDomainNames)
                ELSE FALSE
            generatorDnsMatchesExpected ==
                IF dnsResult # None /\ Len(dnsResult[1].ips) > 0 /\ Len(expectedARecords) > 0
                THEN \E i \in DOMAIN dnsResult[1].ips :
                        \E j \in DOMAIN expectedARecords :
                            expectedARecords[j] = dnsResult[1].ips[i]
                ELSE FALSE
            generatorCnameMatchesExpected ==
                IF dnsResult # None /\ Len(dnsResult[1].cnames) > 0 /\ Truthy(expectedCname)
                THEN \E i \in DOMAIN dnsResult[1].cnames : dnsResult[1].cnames[i] = expectedCname
                ELSE FALSE
        IN  IF networkStatus = STR_ACTIVE
            THEN IF dnsMatches \/ generatorDnsMatchesExpected \/ generatorCnameMatchesExpected
                     THEN [status |-> "good", detail |-> DETAIL_ACTIVE_POINTED]
                 ELSE IF dnsResult # None /\ dnsResult[1].resolved
                     THEN [status |-> "issue", detail |-> DETAIL_NOT_POINTED]
                 ELSE IF dnsResult # None /\ ~dnsResult[1].resolved
                     THEN [status |-> "issue", detail |-> DETAIL_NOT_RESOLVING]
                 ELSE [status |-> "good", detail |-> DETAIL_ACTIVE_API]
            ELSE IF networkStatus = STR_PENDING
                THEN [status |-> "pending", detail |-> DETAIL_PENDING]
            ELSE IF networkStatus = STR_DELETED
                THEN [status |-> "issue", detail |-> DETAIL_DELETED]
            ELSE IF ~Truthy(networkStatus)
                THEN IF dnsMatches
                         THEN [status |-> "good", detail |-> DETAIL_LEGACY]
                     ELSE IF dnsResult # None /\ dnsResult[1].resolved
                         THEN [status |-> "issue", detail |-> DETAIL_NOT_POINTED]
                     ELSE IF dnsResult # None /\ ~dnsResult[1].resolved
                         THEN [status |-> "issue", detail |-> DETAIL_NOT_RESOLVING]
                     ELSE [status |-> "unknown", detail |-> DETAIL_NO_DATA]
            ELSE [status |-> "unknown", detail |-> OrElse(networkStatus, DETAIL_UNKNOWN)]

\* One element of siteData in the generator's main.
generatorSite(entry, dnsResults, allDomainNames) ==
    LET enrichedDomains ==
            [k \in DOMAIN entry.domains |->
                LET d == entry.domains[k]
                    isSystem == \/ EndsWith(d.name, SUFFIX_WPENGINEPOWERED)
                                \/ EndsWith(d.name, SUFFIX_WPENGINE)
                    dnsResult == IF d.id \in DOMAIN dnsResults
                                 THEN Some(dnsResults[d.id]) ELSE None
                    v == generatorDetermineDomainStatus(d, dnsResult, entry.install.cname,
                                                        allDomainNames)
                IN  [name |-> d.name, id |-> d.id, isSystem |-> isSystem,
                     dns |-> dnsResult, status |-> v.status, detail |-> v.detail,
                     expectedCname |-> OrElse(d.cname, Null),
                     expectedARecords |-> IF d.a_records = None THEN <<>>
                                          ELSE d.a_records[1]]]
        customDomains == {k \in DOMAIN enrichedDomains : ~enrichedDomains[k].isSystem}
    IN  [id |-> entry.install.id, cname |-> entry.install.cname,
         domains |-> enrichedDomains,
         issueCount |-> Cardinality({k \in customDomains :
                                        enrichedDomains[k].status = "issue"}),
         pendingCount |-> Cardinality({k \in customDomains :
                                          enrichedDomains[k].status = "pending"})]

\* siteData in the generator's main.
generatorSiteData(installDomains, dnsResults, allDomainNames) ==
    [k \in DOMAIN installDomains |->
        generatorSite(installDomains[k], dnsResults, allDomainNames)]

\* stats in the generator's main, without the timestamp.
generatorStats(installs, siteData) ==
    LET allDomains == Flatten([k \in DOMAIN siteData |-> siteData[k].domains])
        customDomains == {k \in DOMAIN allDomains : ~allDomains[k].isSystem}
    IN  [totalSites |-> Len(installs), totalDomains |-> Len(allDomains),
         customDomains |-> Cardinality(customDomains),
         good |-> Cardinality({k \in customDomains : allDomains[k].status = "good"}),
         issues |-> Cardinality({k \in customDomains : allDomains[k].status = "issue"}),
         pending |-> Cardinality({k \in customDomains : allDomains[k].status = "pending"})]

\* The data fetched of an account that holds the drawn domain: two installs,
\* the first with the drawn CNAME, the drawn domain and a system domain, the
\* second with a domain that is pending; the lookup of the drawn domain gave
\* the drawn result, or was not made.
ClInstalls ==
    <<Install(1, cl.installCname), Install(2, CNAME_2)>>

ClInstallDomains ==
    <<[install |-> ClInstalls[1],
       domains |-> <<cl.domain, Domain(NAME_SYS, 2, STR_ACTIVE, Undefined, None)>>],
      [install |-> ClInstalls[2],
       domains |-> <<Domain(NAME_B, 3, STR_PENDING, Undefined, None)>>]>>

ClLookups ==
    IF cl.dnsResult = None THEN <<>>
    ELSE Assign(<<>>, cl.domain.id, cl.dnsResult[1])

\* C38: the server's classifier and the generator's return the same verdict
\* and reason on the same domain record, DNS result (or none), install CNAME
\* and domain index, the two fingerprints agree, and over the same fetched
\* data the two pipelines build the same sites, per-site counts and
\* statistics.
C38_FrontEndsAgree ==
    ClCalled =>
        /\ generatorDetermineDomainStatus(cl.domain, cl.dnsResult, cl.installCname,
                                          cl.allDomainNames) = ClVerdict
        /\ generatorDnsPointsToWPE(cl.dnsResult, cl.installCname, cl.allDomainNames)
              = dnsPointsToWPE(cl.dnsResult, cl.installCname, cl.allDomainNames)
        /\ \E server \in {BuildSiteData(ClInstallDomains, ClLookups, cl.allDomainNames)},
              generator \in {generatorSiteData(ClInstallDomains, ClLookups,
                                               cl.allDomainNames)} :
              /\ generator = server
              /\ generatorStats(ClInstalls, generator) = BuildStats(ClInstalls, server)

\* C38 witness: both classifiers were given an ACTIVE domain whose DNS result
\* holds an A-record elsewhere and the expected CNAME; both report it good, and
\* both pipelines count one good and one pending domain of two custom domains.
C38_Witness ==
    /\ ClCalled
    /\ cl.domain.name = NAME_A
    /\ cl.domain.status = <<"a","c","t","i","v","e">>
    /\ cl.domain.cname = CNAME_EXPECTED
    /\ cl.dnsResult # None
    /\ cl.dnsResult[1].ips = <<IP_OTHER>>
    /\ cl.dnsResult[1].cnames = <<CNAME_OTHER, CNAME_EXPECTED>>
    /\ ClVerdict = Verdict("good", DETAIL_ACTIVE_POINTED)
    /\ generatorDetermineDomainStatus(cl.domain, cl.dnsResult, cl.installCname,
                                      cl.allDomainNames) = ClVerdict
    /\ generatorStats(ClInstalls,
                      generatorSiteData(ClInstallDomains, ClLookups, cl.allDomainNames))
          = [totalSites |-> 2, totalDomains |-> 3, customDomains |-> 2,
             good |-> 1, issues |-> 0, pending |-> 1]

(***************************************************************************)
(* Confirm and unconfirm requests whose body names no domain.              *)
(***************************************************************************)
\* The step answers a confirm or an unconfirm request that named no domain.
AnswersUnnamedRequest ==
    /\ response = None
    /\ response' # None
    /\ response'[1].route \in {"POST /api/confirm", "DELETE /api/confirm"}
    /\ ~Truthy(response'[1].domain)

\* C39: a confirm or an unconfirm request that carries no domain name is
\* answered with the error 400, and it changes neither the override store in
\* memory nor confirmed.json.
C39_UnnamedRequestRejected ==
    [][AnswersUnnamedRequest =>
          /\ response'[1].code = 400
          /\ confirmedDomains' = confirmedDomains
          /\ confirmedFile' = confirmedFile]_vars

\* C39 witness: an unconfirm request without a domain is being answered 400
\* while a name is confirmed, in memory and in the file.
C39_Witness ==
    /\ response = Some(Response("DELETE /api/confirm", 400, Undefined, None))
    /\ NAME_A \in DOMAIN confirmedDomains
    /\ Persisted(confirmedDomains, confirmedFile)
====
